---- MODULE Spec2Model ----
(***************************************************************************)
(* Byte-level model of the zmodem2-js protocol engine: the CRC primitives, *)
(* the ZDLE escape tables, the header codec, the streaming header reader,  *)
(* and the Sender and Receiver state machines of src/lib/transmission.ts.  *)
(* Bytes are integers 0..255, buffers are sequences of bytes, a 32-bit CRC *)
(* is a pair <<high half, low half>> of 16-bit integers.                   *)
(***************************************************************************)
EXTENDS Integers, Sequences, FiniteSets, TLC

(***************************************************************************)
(* Bounds of the model.                                                    *)
(***************************************************************************)
\* SUBPACKET_MAX_SIZE is 1024 in src/lib/constants.ts; the model scales it
\* down so that a file of a few bytes spans several subpackets and windows.
SUBPACKET_MAX_SIZE == 4
\* Largest file size start_file is called with.
MaxFileSize == 9

\* The most payload bytes a peer sends the Receiver for one file.
MaxCount == 5

(***************************************************************************)
(* Program constants.                                                      *)
(***************************************************************************)
ZPAD == 42
ZDLE == 24
XON == 17
SUBPACKET_PER_ACK == 10
HEADER_PAYLOAD_SIZE == 5
OUTGOING_CAPACITY == 2048
EVENT_QUEUE_CAP == 4

Byte == 0..255

\* Encoding (header.ts): the wire byte of each encoding.
ZBIN == 65
ZHEX == 66
ZBIN32 == 67

\* Frame (header.ts)
ZRQINIT == 0
ZRINIT == 1
ZACK == 3
ZFILE == 4
ZNAK == 6
ZFIN == 8
ZRPOS == 9
ZDATA == 10
ZEOF == 11

\* SubpacketType (transmission.ts)
ZCRCE == 104
ZCRCG == 105
ZCRCQ == 106
ZCRCW == 107

\* Zrinit capability flags (header.ts)
CANFDX == 1
CANOVIO == 2
CANFC32 == 32

(***************************************************************************)
(* Bit operations on naturals.                                             *)
(***************************************************************************)
RECURSIVE XorN(_, _, _)
XorN(a, b, n) ==
  IF n = 0 THEN 0
  ELSE ((a + b) % 2) + 2 * XorN(a \div 2, b \div 2, n - 1)

RECURSIVE AndN(_, _, _)
AndN(a, b, n) ==
  IF n = 0 THEN 0
  ELSE ((a % 2) * (b % 2)) + 2 * AndN(a \div 2, b \div 2, n - 1)

\* Byte-wide exclusive or, tabulated once.
Xor8 == [a \in Byte |-> [b \in Byte |-> XorN(a, b, 8)]]

Xor16(a, b) == 256 * Xor8[a \div 256][b \div 256] + Xor8[a % 256][b % 256]

And8(a, b) == AndN(a, b, 8)

(***************************************************************************)
(* CRC-16-XMODEM and CRC-32-ISO-HDLC (crc.ts).                             *)
(***************************************************************************)
RECURSIVE crc16Bits(_, _)
crc16Bits(crc, i) ==
  IF i = 0 THEN crc
  ELSE crc16Bits(IF crc >= 32768
                 THEN Xor16((crc * 2) % 65536, 4129)
                 ELSE (crc * 2) % 65536, i - 1)

\* The eight shift steps act on the low byte of crc only by moving it up, so
\* they are tabulated by the high byte they start from.
Crc16Steps == [b \in Byte |-> crc16Bits(b * 256, 8)]

\* crc16Update: crc ^= byte << 8, then the eight shift steps.
crc16Update(crc, byte) ==
  Xor16((crc % 256) * 256, Crc16Steps[Xor8[crc \div 256][byte % 256]])

RECURSIVE crc16Fold(_, _, _)
crc16Fold(crc, data, i) ==
  IF i > Len(data) THEN crc ELSE crc16Fold(crc16Update(crc, data[i]), data, i + 1)

crc16Xmodem(data) == crc16Fold(0, data, 1)

\* A 32-bit value is <<hi, lo>>; 0xEDB88320 is <<0xEDB8, 0x8320>>.
Shr32(c) == <<c[1] \div 2, (c[2] \div 2) + 32768 * (c[1] % 2)>>

RECURSIVE crc32Bits(_, _)
crc32Bits(crc, i) ==
  IF i = 0 THEN crc
  ELSE crc32Bits(IF crc[2] % 2 = 1
                 THEN <<Xor16(Shr32(crc)[1], 60856), Xor16(Shr32(crc)[2], 33568)>>
                 ELSE Shr32(crc), i - 1)

\* The eight shift steps act on the upper 24 bits of crc only by moving them
\* down, so they are tabulated by the low byte they start from.
Crc32Steps == [b \in Byte |-> crc32Bits(<<0, b>>, 8)]

\* crc32Update: crc ^= byte, then the eight shift steps.
crc32Update(crc, byte) ==
  <<Xor16(crc[1] \div 256, Crc32Steps[Xor8[crc[2] % 256][byte % 256]][1]),
    Xor16((crc[2] \div 256) + 256 * (crc[1] % 256),
          Crc32Steps[Xor8[crc[2] % 256][byte % 256]][2])>>

Crc32Init == <<65535, 65535>>

crc32Finalize(crc) == <<Xor16(crc[1], 65535), Xor16(crc[2], 65535)>>

\* crc32Update over data[lo..hi] in order.  The range is taken by halves,
\* the value after the first half being computed before the second is
\* entered, so that a subpacket of the shipped size is folded at a small
\* depth.
RECURSIVE crc32Span(_, _, _, _)
crc32Span(crc, data, lo, hi) ==
  IF lo > hi THEN crc
  ELSE IF lo = hi THEN crc32Update(crc, data[lo])
  ELSE CHOOSE r \in {crc32Span(c, data, ((lo + hi) \div 2) + 1, hi) :
                        c \in {crc32Span(crc, data, lo, (lo + hi) \div 2)}} : TRUE

crc32Fold(crc, data, i) == crc32Span(crc, data, i, Len(data))

crc32IsoHdlc(data) == crc32Finalize(crc32Fold(Crc32Init, data, 1))

\* The four bytes of a 32-bit value, least significant first.
Le32Bytes(c) == <<c[2] % 256, c[2] \div 256, c[1] % 256, c[1] \div 256>>

\* The two bytes of a 16-bit value, most significant first.
Be16Bytes(c) == <<c \div 256, c % 256>>

(***************************************************************************)
(* ZDLE escape tables (zdle.ts).                                           *)
(***************************************************************************)
EscapeSet == {13, 16, 17, 19, 24, 141, 144, 145, 147}

ZDLE_TABLE == [b \in Byte |-> IF b \in EscapeSet THEN Xor8[b][64] ELSE b]

UNZDLE_TABLE ==
  [e \in Byte |-> IF \E b \in EscapeSet : ZDLE_TABLE[b] = e
                  THEN CHOOSE b \in EscapeSet : ZDLE_TABLE[b] = e
                  ELSE e]

\* The bytes written for data[lo..hi], the range taken by halves.
RECURSIVE EscapeSpan(_, _, _)
EscapeSpan(data, lo, hi) ==
  IF lo > hi THEN <<>>
  ELSE IF lo = hi
  THEN (IF ZDLE_TABLE[data[lo]] # data[lo] THEN <<ZDLE>> ELSE <<>>)
       \o <<ZDLE_TABLE[data[lo]]>>
  ELSE EscapeSpan(data, lo, (lo + hi) \div 2)
       \o EscapeSpan(data, ((lo + hi) \div 2) + 1, hi)

EscapeFrom(data, i) == EscapeSpan(data, i, Len(data))

writeSliceEscaped(data) == EscapeFrom(data, 1)

(***************************************************************************)
(* Header codec (header.ts).  A header is [encoding, frame, flags].        *)
(***************************************************************************)
Header(encoding, frame, flags) == [encoding |-> encoding, frame |-> frame, flags |-> flags]

NoFlags == <<0, 0, 0, 0>>

\* Header.count: the flags read as a little-endian integer.
HeaderCount(h) == h.flags[1] + 256 * h.flags[2] + 65536 * h.flags[3] + 16777216 * (h.flags[4] % 128)

\* Header.withCount: counts of the model stay below 2^31.
withCount(h, count) ==
  [h EXCEPT !.flags = <<count % 256, (count \div 256) % 256,
                        (count \div 65536) % 256, (count \div 16777216) % 256>>]

readSize(encoding) ==
  IF encoding = ZBIN THEN HEADER_PAYLOAD_SIZE + 2
  ELSE IF encoding = ZBIN32 THEN HEADER_PAYLOAD_SIZE + 4
  ELSE (HEADER_PAYLOAD_SIZE + 2) * 2

\* b.toString(16).padStart(2, '0'): two lowercase hex characters.
HexChar(n) == IF n < 10 THEN 48 + n ELSE 87 + n

RECURSIVE HexFrom(_, _)
HexFrom(data, i) ==
  IF i > Len(data) THEN <<>>
  ELSE <<HexChar(data[i] \div 16), HexChar(data[i] % 16)>> \o HexFrom(data, i + 1)

\* The bytes of a header after the encoding byte, given payload and CRC.
encodeBody(h, full) ==
  IF h.encoding = ZHEX
  THEN HexFrom(full, 1) \o <<13, 10>>
       \o (IF h.frame # ZACK /\ h.frame # ZFIN THEN <<XON>> ELSE <<>>)
  ELSE writeSliceEscaped(full)

\* The CRC bytes that follow a header payload.
headerCrc(encoding, payload) ==
  IF encoding = ZBIN32
  THEN Le32Bytes(crc32IsoHdlc(payload))
  ELSE Be16Bytes(crc16Xmodem(payload))

\* Header.encode
encode(h) ==
  <<ZPAD>> \o (IF h.encoding = ZHEX THEN <<ZPAD>> ELSE <<>>) \o <<ZDLE, h.encoding>>
  \o encodeBody(h, <<h.frame>> \o h.flags \o headerCrc(h.encoding, <<h.frame>> \o h.flags))

\* parseInt(s, 16) on a two-character string: -1 stands for NaN, and a
\* negative result is given as the byte a Uint8Array stores for it.
IsHexDigit(c) == (c >= 48 /\ c <= 57) \/ (c >= 97 /\ c <= 102) \/ (c >= 65 /\ c <= 70)

HexVal(c) == IF c <= 57 THEN c - 48 ELSE IF c >= 97 THEN c - 87 ELSE c - 55

IsJsSpace(c) == c \in {9, 10, 11, 12, 13, 32, 160}

parseHexPair(c1, c2) ==
  IF IsHexDigit(c1)
  THEN IF c1 = 48 /\ c2 \in {120, 88} THEN -1
       ELSE IF IsHexDigit(c2) THEN 16 * HexVal(c1) + HexVal(c2) ELSE HexVal(c1)
  ELSE IF IsJsSpace(c1) \/ c1 = 43
  THEN IF IsHexDigit(c2) THEN HexVal(c2) ELSE -1
  ELSE IF c1 = 45
  THEN IF IsHexDigit(c2) THEN (256 - HexVal(c2)) % 256 ELSE -1
  ELSE -1

RECURSIVE UnhexFrom(_, _)
UnhexFrom(data, i) ==
  IF i > Len(data) THEN <<>>
  ELSE <<parseHexPair(data[i], data[i + 1])>> \o UnhexFrom(data, i + 2)

Take(s, n) == SubSeq(s, 1, IF n < Len(s) THEN n ELSE Len(s))

Drop(s, n) == SubSeq(s, n + 1, Len(s))

\* decodePayload without the comparison of the CRCs.
decodePayload_noCrc(encoding, payload) ==
  IF encoding = ZHEX /\ \E i \in 1..Len(payload) : payload[i] = -1
  THEN [err |-> "MalformedHeader"]
  ELSE IF Len(payload) < HEADER_PAYLOAD_SIZE + (IF encoding = ZBIN32 THEN 4 ELSE 2)
  THEN [err |-> "MalformedHeader"]
  ELSE IF payload[1] > 19
  THEN [err |-> "MalformedFrame"]
  ELSE [err |-> "none", header |-> Header(encoding, payload[1], SubSeq(payload, 2, 5))]

\* decodeHeader once the hex text is parsed: payload holds -1 where parseInt
\* gave NaN.
decodePayload(encoding, payload) ==
  IF encoding = ZHEX /\ \E i \in 1..Len(payload) : payload[i] = -1
  THEN [err |-> "MalformedHeader"]
  ELSE IF Len(payload) < HEADER_PAYLOAD_SIZE + (IF encoding = ZBIN32 THEN 4 ELSE 2)
  THEN [err |-> "MalformedHeader"]
  ELSE IF Take(Drop(payload, HEADER_PAYLOAD_SIZE), IF encoding = ZBIN32 THEN 4 ELSE 2)
          # headerCrc(encoding, Take(payload, HEADER_PAYLOAD_SIZE))
  THEN [err |-> IF encoding = ZBIN32 THEN "UnexpectedCrc32" ELSE "UnexpectedCrc16"]
  ELSE IF payload[1] > 19
  THEN [err |-> "MalformedFrame"]
  ELSE [err |-> "none", header |-> Header(encoding, payload[1], SubSeq(payload, 2, 5))]

\* decodeHeader: [err |-> "none", header |-> h] or [err |-> the error thrown].
decodeHeader(encoding, data) ==
  IF encoding = ZHEX /\ Len(data) % 2 # 0 THEN [err |-> "MalformedHeader"]
  ELSE decodePayload(encoding, IF encoding = ZHEX THEN UnhexFrom(data, 1) ELSE data)

createZrinit(bufferSize, flags) ==
  Header(ZHEX, ZRINIT, <<bufferSize % 256, (bufferSize \div 256) % 256, 0, flags>>)

ZACK_HEADER == Header(ZHEX, ZACK, NoFlags)
ZDATA_HEADER == Header(ZBIN32, ZDATA, NoFlags)
ZEOF_HEADER == Header(ZBIN32, ZEOF, NoFlags)
ZFIN_HEADER == Header(ZHEX, ZFIN, NoFlags)
ZNAK_HEADER == Header(ZHEX, ZNAK, NoFlags)
ZRPOS_HEADER == Header(ZHEX, ZRPOS, NoFlags)
ZRQINIT_HEADER == Header(ZHEX, ZRQINIT, NoFlags)

(***************************************************************************)
(* HeaderReader (transmission.ts): the streaming header reader.            *)
(***************************************************************************)
HeaderReaderInit ==
  [state |-> "SeekingZpad", zpadState |-> "Idle", buf |-> <<>>, encoding |-> 0,
   expectedLen |-> 0, escapePending |-> FALSE]

\* HeaderReader.reset
hrReset(h) == HeaderReaderInit

\* advanceZpadState finding the preamble only after a single ZPAD.
advanceZpadState_oneZpad(zpadState, byte) ==
  IF zpadState = "Idle"
  THEN [zpadState |-> IF byte = ZPAD THEN "Zpad" ELSE "Idle", found |-> FALSE]
  ELSE IF byte = ZDLE /\ zpadState = "Zpad" THEN [zpadState |-> "Idle", found |-> TRUE]
  ELSE [zpadState |-> IF byte = ZPAD THEN "ZpadZpad" ELSE "Idle", found |-> FALSE]

\* advanceZpadState taking a ZDLE for a preamble in every state.
advanceZpadState_anyZdle(zpadState, byte) ==
  IF byte = ZDLE THEN [zpadState |-> "Idle", found |-> TRUE]
  ELSE IF byte = ZPAD
  THEN [zpadState |-> IF zpadState = "Idle" THEN "Zpad" ELSE "ZpadZpad", found |-> FALSE]
  ELSE [zpadState |-> "Idle", found |-> FALSE]

\* advanceZpadState: [zpadState, the value returned].
advanceZpadState(zpadState, byte) ==
  IF zpadState = "Idle"
  THEN [zpadState |-> IF byte = ZPAD THEN "Zpad" ELSE "Idle", found |-> FALSE]
  ELSE IF byte = ZDLE THEN [zpadState |-> "Idle", found |-> TRUE]
  ELSE [zpadState |-> IF byte = ZPAD THEN "ZpadZpad" ELSE "Idle", found |-> FALSE]

\* The inner loop of ReadingData: unescape into buf until it is full or the
\* input ends.  Gives [h, consumed].
RECURSIVE hrCollect(_, _, _)
hrCollect(h, input, consumed) ==
  IF Len(h.buf) < h.expectedLen /\ consumed < Len(input)
  THEN LET byte == input[consumed + 1]
       IN hrCollect(IF h.escapePending
                    THEN [h EXCEPT !.escapePending = FALSE,
                                   !.buf = Append(@, UNZDLE_TABLE[byte])]
                    ELSE IF byte = ZDLE
                    THEN [h EXCEPT !.escapePending = TRUE]
                    ELSE [h EXCEPT !.buf = Append(@, byte)],
                    input, consumed + 1)
  ELSE [h |-> h, consumed |-> consumed]

\* The end of the ReadingData case with a full buffer: d is what decodeHeader
\* gave.  The reader is reset only when a header is returned.
hrDecoded(h, consumed, d) ==
  IF d.err # "none"
  THEN [kind |-> "throw", h |-> h, consumed |-> consumed, err |-> d.err]
  ELSE [kind |-> "header", h |-> hrReset(h), consumed |-> consumed, err |-> "none",
        header |-> d.header]

\* HeaderReader.read(input, startOffset): kind is "null" (input exhausted),
\* "header" (with the header and the new consumed count) or "throw".
RECURSIVE hrRead(_, _, _)
RECURSIVE hrCollected(_, _)

\* read leaving the reader as it is when the encoding byte is refused.
hrRead_noReset(h, input, consumed) ==
  IF consumed >= Len(input)
  THEN [kind |-> "null", h |-> h, consumed |-> consumed, err |-> "none"]
  ELSE IF h.state = "SeekingZpad"
  THEN hrRead([h EXCEPT !.zpadState = advanceZpadState(h.zpadState, input[consumed + 1]).zpadState,
                        !.state = IF advanceZpadState(h.zpadState, input[consumed + 1]).found
                                  THEN "ReadingEncoding" ELSE @],
              input, consumed + 1)
  ELSE IF h.state = "ReadingEncoding"
  THEN IF input[consumed + 1] \in {ZBIN, ZHEX, ZBIN32}
       THEN hrRead([h EXCEPT !.encoding = input[consumed + 1],
                             !.expectedLen = readSize(input[consumed + 1]),
                             !.escapePending = FALSE, !.buf = <<>>,
                             !.state = "ReadingData"],
                   input, consumed + 1)
       ELSE [kind |-> "throw", h |-> h, consumed |-> consumed + 1,
             err |-> "MalformedPacket"]
  ELSE hrCollected(hrCollect(h, input, consumed), input)

hrRead(h, input, consumed) ==
  IF consumed >= Len(input)
  THEN [kind |-> "null", h |-> h, consumed |-> consumed, err |-> "none"]
  ELSE IF h.state = "SeekingZpad"
  THEN hrRead([h EXCEPT !.zpadState = advanceZpadState(h.zpadState, input[consumed + 1]).zpadState,
                        !.state = IF advanceZpadState(h.zpadState, input[consumed + 1]).found
                                  THEN "ReadingEncoding" ELSE @],
              input, consumed + 1)
  ELSE IF h.state = "ReadingEncoding"
  THEN IF input[consumed + 1] \in {ZBIN, ZHEX, ZBIN32}
       THEN hrRead([h EXCEPT !.encoding = input[consumed + 1],
                             !.expectedLen = readSize(input[consumed + 1]),
                             !.escapePending = FALSE, !.buf = <<>>,
                             !.state = "ReadingData"],
                   input, consumed + 1)
       ELSE [kind |-> "throw", h |-> hrReset(h), consumed |-> consumed + 1,
             err |-> "MalformedPacket"]
  ELSE hrCollected(hrCollect(h, input, consumed), input)

\* The ReadingData case after its inner loop.
hrCollected(c, input) ==
  IF Len(c.h.buf) >= c.h.expectedLen
  THEN IF c.h.encoding = 0
       THEN [kind |-> "throw", h |-> hrReset(c.h), consumed |-> c.consumed,
             err |-> "MalformedHeader"]
       ELSE hrDecoded(c.h, c.consumed, decodeHeader(c.h.encoding, c.h.buf))
  ELSE hrRead(c.h, input, c.consumed)


(***************************************************************************)
(* Buffer (transmission.ts): a bounded byte array.                         *)
(***************************************************************************)
\* clear() followed by extend(bytes): push throws OutOfMemory at capacity and
\* leaves the bytes pushed so far.
bufferFill(bytes, capacity) ==
  IF Len(bytes) > capacity
  THEN [data |-> SubSeq(bytes, 1, capacity), err |-> "OutOfMemory"]
  ELSE [data |-> bytes, err |-> "none"]

\* The body shared by every queueXxx(): outgoing.clear(), outgoing.extend(bytes),
\* outgoingOffset = 0 (not reached when extend throws).
queueBytes(m, bytes) ==
  LET f == bufferFill(bytes, OUTGOING_CAPACITY)
  IN  [m |-> [m EXCEPT !.outgoing = f.data,
                       !.outgoingOffset = IF f.err = "none" THEN 0 ELSE @],
       err |-> f.err]

hasOutgoing(m) == m.outgoingOffset < Len(m.outgoing)

\* A data subpacket on the wire: escaped data, ZDLE, terminator, escaped CRC-32.
subpacket32(data, kind) ==
  writeSliceEscaped(data) \o <<ZDLE, kind>>
  \o writeSliceEscaped(Le32Bytes(crc32IsoHdlc(data \o <<kind>>)))

\* number.toString(): the decimal digits as character codes.
RECURSIVE toDecimal(_)
toDecimal(n) == IF n < 10 THEN <<48 + n>> ELSE toDecimal(n \div 10) \o <<48 + (n % 10)>>

(***************************************************************************)
(* Sender (transmission.ts).                                               *)
(***************************************************************************)
NoRequest == [offset |-> -1, len |-> -1]

\* The fields of a Sender after construction, before the constructor body.
SenderFields(initiator) ==
  [state |-> "WaitReceiverInit", fileName |-> <<>>, fileSize |-> 0, hasFile |-> FALSE,
   pendingRequest |-> NoRequest, frameRemaining |-> 0, frameNeedsHeader |-> FALSE,
   maxSubpacketSize |-> SUBPACKET_MAX_SIZE, maxSubpacketsPerAck |-> SUBPACKET_PER_ACK,
   outgoing |-> <<>>, outgoingOffset |-> 0, headerReader |-> HeaderReaderInit,
   pendingEvent |-> "null", finishRequested |-> FALSE, initiator |-> initiator]

S_queueZrqinit(s) == queueBytes(s, encode(ZRQINIT_HEADER))

S_queueZfile(s) ==
  queueBytes(s, encode(Header(ZBIN32, ZFILE, NoFlags))
                \o subpacket32(s.fileName \o <<0>> \o toDecimal(s.fileSize) \o <<0>>, ZCRCW))

S_queueZdata(s, offset, data, kind, includeHeader) ==
  queueBytes(s, (IF includeHeader THEN encode(withCount(ZDATA_HEADER, offset)) ELSE <<>>)
                \o subpacket32(data, kind))

S_queueZeof(s, offset) == queueBytes(s, encode(withCount(ZEOF_HEADER, offset)))

S_queueZfin(s) == queueBytes(s, encode(ZFIN_HEADER))

S_queueOo(s) == queueBytes(s, <<79, 79>>)

\* new Sender(initiator)
SenderNew(initiator) ==
  IF initiator THEN S_queueZrqinit(SenderFields(initiator)).m ELSE SenderFields(initiator)

\* The end of a method that queued a frame: the state is set unless the
\* queueing threw.
thenState(q, state) ==
  IF q.err # "none" THEN q ELSE [m |-> [q.m EXCEPT !.state = state], err |-> "none"]

\* Sender.startFile once the state is known to allow it and the fields are set.
startFileQueue(s1) ==
  IF s1.state = "ReadyForFile"
  THEN IF hasOutgoing(s1)
       THEN [m |-> s1, err |-> "Unsupported"]
       ELSE thenState(S_queueZfile(s1), "WaitFilePos")
  ELSE [m |-> s1, err |-> "none"]

\* startFile without the test of the state.
startFile_anyState(s, fileName, fileSize) ==
  startFileQueue([s EXCEPT !.fileName = fileName, !.fileSize = fileSize,
                           !.hasFile = TRUE, !.pendingRequest = NoRequest,
                           !.frameRemaining = 0, !.frameNeedsHeader = FALSE])

\* Sender.startFile
startFile(s, fileName, fileSize) ==
  IF s.state \notin {"WaitReceiverInit", "ReadyForFile"}
  THEN [m |-> s, err |-> "Unsupported"]
  ELSE startFileQueue([s EXCEPT !.fileName = fileName, !.fileSize = fileSize,
                                !.hasFile = TRUE, !.pendingRequest = NoRequest,
                                !.frameRemaining = 0, !.frameNeedsHeader = FALSE])

\* Sender.finishSession once the latch is set.
finishSessionQueue(s1) ==
  IF s1.state = "ReadyForFile"
  THEN IF hasOutgoing(s1)
       THEN [m |-> s1, err |-> "Unsupported"]
       ELSE thenState(S_queueZfin(s1), "WaitFinish")
  ELSE [m |-> s1, err |-> "none"]

\* finishSession without setting the latch.
finishSession_noLatch(s) == finishSessionQueue(s)

\* Sender.finishSession
finishSession(s) == finishSessionQueue([s EXCEPT !.finishRequested = TRUE])

Min(a, b) == IF a < b THEN a ELSE b

Max(a, b) == IF a > b THEN a ELSE b

\* Math.ceil(a / b) for a >= 0, b > 0
CeilDiv(a, b) == (a + b - 1) \div b

\* Sender.feedFile after queueZdata(offset, data, kind, frameNeedsHeader): q
\* is what the queueing gave; nothing more happens when it threw.
feedFileQueued(q, isLastInFrame, nextOffset, maxLen) ==
  [m |-> IF q.err # "none" THEN q.m
         ELSE IF isLastInFrame
         THEN [q.m EXCEPT !.frameNeedsHeader = FALSE, !.pendingRequest = NoRequest,
                          !.state = "WaitFileAck", !.frameRemaining = 0]
         ELSE [q.m EXCEPT !.frameNeedsHeader = FALSE,
                          !.frameRemaining = IF @ > 0 THEN @ - 1 ELSE @,
                          !.pendingRequest = [offset |-> nextOffset, len |-> maxLen]],
   err |-> q.err,
   kind |-> IF isLastInFrame THEN ZCRCW ELSE ZCRCG,
   includeHeader |-> q.m.frameNeedsHeader]

\* Sender.feedFile past its argument checks.
feedFileSend(s, data, nextOffset, remainingAfter, isLastInFrame) ==
  feedFileQueued(S_queueZdata(s, s.pendingRequest.offset, data,
                              IF isLastInFrame THEN ZCRCW ELSE ZCRCG,
                              s.frameNeedsHeader),
                 isLastInFrame, nextOffset, Min(s.maxSubpacketSize, remainingAfter))

\* feedFile without the test of the outgoing buffer.
feedFile_noBackpressure(s, data) ==
  IF s.state # "NeedFileData" \/ s.pendingRequest = NoRequest
  THEN [m |-> s, err |-> "Unsupported", kind |-> 0, includeHeader |-> FALSE]
  ELSE IF Len(data) = 0 \/ Len(data) > s.pendingRequest.len
          \/ Len(data) > Max(0, s.fileSize - s.pendingRequest.offset)
  THEN [m |-> s, err |-> "UnexpectedEof", kind |-> 0, includeHeader |-> FALSE]
  ELSE feedFileSend(s, data, s.pendingRequest.offset + Len(data),
                    Max(0, s.fileSize - (s.pendingRequest.offset + Len(data))),
                    \/ s.frameRemaining <= 1
                    \/ Len(data) < s.pendingRequest.len
                    \/ Max(0, s.fileSize - (s.pendingRequest.offset + Len(data))) = 0)

\* feedFile never closing the window on the count of subpackets.
feedFile_noWindow(s, data) ==
  IF s.state # "NeedFileData" \/ s.pendingRequest = NoRequest
  THEN [m |-> s, err |-> "Unsupported", kind |-> 0, includeHeader |-> FALSE]
  ELSE IF Len(data) = 0 \/ Len(data) > s.pendingRequest.len
          \/ Len(data) > Max(0, s.fileSize - s.pendingRequest.offset)
  THEN [m |-> s, err |-> "UnexpectedEof", kind |-> 0, includeHeader |-> FALSE]
  ELSE IF hasOutgoing(s)
  THEN [m |-> s, err |-> "Unsupported", kind |-> 0, includeHeader |-> FALSE]
  ELSE feedFileSend(s, data, s.pendingRequest.offset + Len(data),
                    Max(0, s.fileSize - (s.pendingRequest.offset + Len(data))),
                    \/ Len(data) < s.pendingRequest.len
                    \/ Max(0, s.fileSize - (s.pendingRequest.offset + Len(data))) = 0)

\* feedFile accepting an empty chunk.
feedFile_acceptsEmpty(s, data) ==
  IF s.state # "NeedFileData" \/ s.pendingRequest = NoRequest
  THEN [m |-> s, err |-> "Unsupported", kind |-> 0, includeHeader |-> FALSE]
  ELSE IF Len(data) > s.pendingRequest.len
          \/ Len(data) > Max(0, s.fileSize - s.pendingRequest.offset)
  THEN [m |-> s, err |-> "UnexpectedEof", kind |-> 0, includeHeader |-> FALSE]
  ELSE IF hasOutgoing(s)
  THEN [m |-> s, err |-> "Unsupported", kind |-> 0, includeHeader |-> FALSE]
  ELSE feedFileSend(s, data, s.pendingRequest.offset + Len(data),
                    Max(0, s.fileSize - (s.pendingRequest.offset + Len(data))),
                    \/ s.frameRemaining <= 1
                    \/ Len(data) < s.pendingRequest.len
                    \/ Max(0, s.fileSize - (s.pendingRequest.offset + Len(data))) = 0)

\* Sender.feedFile: besides the new Sender and the error, the arguments
\* queueZdata was called with (kind 0 when it was not called).
feedFile(s, data) ==
  IF s.state # "NeedFileData" \/ s.pendingRequest = NoRequest
  THEN [m |-> s, err |-> "Unsupported", kind |-> 0, includeHeader |-> FALSE]
  ELSE IF Len(data) = 0 \/ Len(data) > s.pendingRequest.len
          \/ Len(data) > Max(0, s.fileSize - s.pendingRequest.offset)
  THEN [m |-> s, err |-> "UnexpectedEof", kind |-> 0, includeHeader |-> FALSE]
  ELSE IF hasOutgoing(s)
  THEN [m |-> s, err |-> "Unsupported", kind |-> 0, includeHeader |-> FALSE]
  ELSE feedFileSend(s, data, s.pendingRequest.offset + Len(data),
                    Max(0, s.fileSize - (s.pendingRequest.offset + Len(data))),
                    \/ s.frameRemaining <= 1
                    \/ Len(data) < s.pendingRequest.len
                    \/ Max(0, s.fileSize - (s.pendingRequest.offset + Len(data))) = 0)

\* updateReceiverCaps giving the full window to a receiver that can
\* overlap I/O, whatever buffer size it advertised.
setReceiverCaps_fullWindow(s, rxBufSize, canOvio) ==
  IF rxBufSize = 0
  THEN [s EXCEPT !.maxSubpacketSize = SUBPACKET_MAX_SIZE,
                 !.maxSubpacketsPerAck = IF canOvio THEN SUBPACKET_PER_ACK ELSE 1]
  ELSE [s EXCEPT !.maxSubpacketSize = Min(SUBPACKET_MAX_SIZE, rxBufSize),
                 !.maxSubpacketsPerAck = IF canOvio THEN SUBPACKET_PER_ACK ELSE 1]

\* Sender.updateReceiverCaps with the two fields read from the flags.
setReceiverCaps(s, rxBufSize, canOvio) ==
  IF rxBufSize = 0
  THEN [s EXCEPT !.maxSubpacketSize = SUBPACKET_MAX_SIZE,
                 !.maxSubpacketsPerAck = IF canOvio THEN SUBPACKET_PER_ACK ELSE 1]
  ELSE [s EXCEPT !.maxSubpacketSize = Min(SUBPACKET_MAX_SIZE, rxBufSize),
                 !.maxSubpacketsPerAck =
                    IF ~canOvio THEN 1
                    ELSE IF rxBufSize \div Min(SUBPACKET_MAX_SIZE, rxBufSize) = 0 THEN 1
                    ELSE rxBufSize \div Min(SUBPACKET_MAX_SIZE, rxBufSize)]

\* Sender.updateReceiverCaps: the buffer size is flags[0..1], the capability
\* bits are read from flags[2] (and flags[3] as their high byte).
updateReceiverCaps(s, header) ==
  setReceiverCaps(s, header.flags[1] + 256 * header.flags[2],
                  And8(header.flags[3], CANOVIO) # 0)

\* Done entered without this.pendingEvent = SenderEvent.SessionComplete
enterDone_silent(q) ==
  IF q.err # "none" THEN q
  ELSE [m |-> [q.m EXCEPT !.state = "Done"], err |-> "none"]

\* queueOo(), state = Done, pendingEvent = SessionComplete
enterDone(q) ==
  IF q.err # "none" THEN q
  ELSE [m |-> [q.m EXCEPT !.state = "Done", !.pendingEvent = "SessionComplete"],
        err |-> "none"]

\* onZrinitState looking at finishRequested before hasFile.
onZrinitState_finishFirst(s1) ==
  CASE s1.state = "WaitReceiverInit" ->
         IF s1.finishRequested
         THEN thenState(S_queueZfin([s1 EXCEPT !.state = "ReadyForFile"]), "WaitFinish")
         ELSE IF s1.hasFile THEN thenState(S_queueZfile(s1), "WaitFilePos")
              ELSE [m |-> [s1 EXCEPT !.state = "ReadyForFile"], err |-> "none"]
    [] s1.state = "WaitFileDone" ->
         IF s1.finishRequested
         THEN thenState(S_queueZfin([s1 EXCEPT !.pendingEvent = "FileComplete",
                                               !.hasFile = FALSE]), "WaitFinish")
         ELSE [m |-> [s1 EXCEPT !.pendingEvent = "FileComplete", !.hasFile = FALSE,
                                !.state = "ReadyForFile"],
               err |-> "none"]
    [] s1.state = "WaitFinish" -> enterDone(S_queueOo(s1))
    [] OTHER -> [m |-> s1, err |-> "none"]

\* onZrinit going back to ReadyForFile after a file although
\* finishRequested is set.
onZrinitState_ignoreLatch(s1) ==
  CASE s1.state = "WaitReceiverInit" ->
         IF s1.hasFile THEN thenState(S_queueZfile(s1), "WaitFilePos")
         ELSE IF s1.finishRequested
              THEN thenState(S_queueZfin([s1 EXCEPT !.state = "ReadyForFile"]), "WaitFinish")
              ELSE [m |-> [s1 EXCEPT !.state = "ReadyForFile"], err |-> "none"]
    [] s1.state = "WaitFileDone" ->
         [m |-> [s1 EXCEPT !.pendingEvent = "FileComplete", !.hasFile = FALSE,
                           !.state = "ReadyForFile"],
          err |-> "none"]
    [] s1.state = "WaitFinish" -> enterDone(S_queueOo(s1))
    [] OTHER -> [m |-> s1, err |-> "none"]

\* Sender.onZrinit after updateReceiverCaps.
onZrinitState(s1) ==
  CASE s1.state = "WaitReceiverInit" ->
         IF s1.hasFile THEN thenState(S_queueZfile(s1), "WaitFilePos")
         ELSE IF s1.finishRequested
              THEN thenState(S_queueZfin([s1 EXCEPT !.state = "ReadyForFile"]), "WaitFinish")
              ELSE [m |-> [s1 EXCEPT !.state = "ReadyForFile"], err |-> "none"]
    [] s1.state = "WaitFileDone" ->
         IF s1.finishRequested
         THEN thenState(S_queueZfin([s1 EXCEPT !.pendingEvent = "FileComplete",
                                               !.hasFile = FALSE]), "WaitFinish")
         ELSE [m |-> [s1 EXCEPT !.pendingEvent = "FileComplete", !.hasFile = FALSE,
                                !.state = "ReadyForFile"],
               err |-> "none"]
    [] s1.state = "WaitFinish" -> enterDone(S_queueOo(s1))
    [] OTHER -> [m |-> s1, err |-> "none"]

\* Sender.onZrinit
onZrinit(s, header) == onZrinitState(updateReceiverCaps(s, header))

\* enterWaitFileDone publishing FileComplete as soon as ZEOF is queued.
enterWaitFileDone_publishes(q) ==
  IF q.err # "none" THEN q
  ELSE [m |-> [q.m EXCEPT !.state = "WaitFileDone", !.pendingRequest = NoRequest,
                          !.pendingEvent = "FileComplete"],
        err |-> "none"]

\* queueZeof(offset), state = WaitFileDone, pendingRequest = null
enterWaitFileDone(q) ==
  IF q.err # "none" THEN q
  ELSE [m |-> [q.m EXCEPT !.state = "WaitFileDone", !.pendingRequest = NoRequest],
        err |-> "none"]

\* onZrpos taking an offset equal to the file size for one inside the file.
onZrpos_offByOne(s, offset) ==
  CASE s.state = "WaitReceiverInit" -> S_queueZrqinit(s)
    [] s.state \in {"WaitFilePos", "WaitFileAck", "NeedFileData"} ->
         IF offset > s.fileSize
         THEN enterWaitFileDone(S_queueZeof(s, offset))
         ELSE [m |-> [s EXCEPT !.frameRemaining =
                                   Min(s.maxSubpacketsPerAck,
                                       CeilDiv(s.fileSize - offset, s.maxSubpacketSize)),
                               !.frameNeedsHeader = TRUE,
                               !.pendingRequest =
                                   [offset |-> offset,
                                    len |-> Min(s.maxSubpacketSize, s.fileSize - offset)],
                               !.state = "NeedFileData"],
               err |-> "none"]
    [] OTHER -> [m |-> s, err |-> "none"]

\* onZrpos requesting a full subpacket whatever is left of the file.
onZrpos_fullLen(s, offset) ==
  CASE s.state = "WaitReceiverInit" -> S_queueZrqinit(s)
    [] s.state \in {"WaitFilePos", "WaitFileAck", "NeedFileData"} ->
         IF offset >= s.fileSize
         THEN enterWaitFileDone(S_queueZeof(s, offset))
         ELSE [m |-> [s EXCEPT !.frameRemaining =
                                   Min(s.maxSubpacketsPerAck,
                                       CeilDiv(s.fileSize - offset, s.maxSubpacketSize)),
                               !.frameNeedsHeader = TRUE,
                               !.pendingRequest =
                                   [offset |-> offset, len |-> s.maxSubpacketSize],
                               !.state = "NeedFileData"],
               err |-> "none"]
    [] OTHER -> [m |-> s, err |-> "none"]

\* Sender.onZrpos
onZrpos(s, offset) ==
  CASE s.state = "WaitReceiverInit" -> S_queueZrqinit(s)
    [] s.state \in {"WaitFilePos", "WaitFileAck", "NeedFileData"} ->
         IF offset >= s.fileSize
         THEN enterWaitFileDone(S_queueZeof(s, offset))
         ELSE [m |-> [s EXCEPT !.frameRemaining =
                                   Min(s.maxSubpacketsPerAck,
                                       CeilDiv(s.fileSize - offset, s.maxSubpacketSize)),
                               !.frameNeedsHeader = TRUE,
                               !.pendingRequest =
                                   [offset |-> offset,
                                    len |-> Min(s.maxSubpacketSize, s.fileSize - offset)],
                               !.state = "NeedFileData"],
               err |-> "none"]
    [] OTHER -> [m |-> s, err |-> "none"]

\* onZfin ending the session in every state.
onZfin_anyState(s) == enterDone(S_queueOo(s))

\* Sender.onZfin
onZfin(s) ==
  IF s.state = "WaitFinish" THEN enterDone(S_queueOo(s)) ELSE [m |-> s, err |-> "none"]

\* Sender.handleHeader
S_handleHeader(s, header) ==
  CASE header.frame = ZRINIT -> onZrinit(s, header)
    [] header.frame \in {ZRPOS, ZACK} -> onZrpos(s, HeaderCount(header))
    [] header.frame = ZFIN -> onZfin(s)
    [] OTHER -> IF s.state = "WaitReceiverInit" THEN S_queueZrqinit(s)
                ELSE [m |-> s, err |-> "none"]

\* S_mustStop without the test of the outgoing buffer.
S_mustStop_noOutgoing(s) == s.state = "Done" \/ s.pendingRequest # NoRequest

\* The test at the head of the loop of Sender.feedIncoming.
S_mustStop(s) == hasOutgoing(s) \/ s.state = "Done" \/ s.pendingRequest # NoRequest

\* The loop of Sender.feedIncoming.  log lists the headers handed to
\* handleHeader, each with the value of the loop-head test right after it;
\* scanned is the number of input bytes the header reader has read.  A call
\* that throws returns no count: consumed is then given as 0.
RECURSIVE S_feedLoop(_, _, _, _)
RECURSIVE S_feedRead(_, _, _, _, _)
RECURSIVE S_feedHandled(_, _, _, _, _)

S_feedLoop(s, input, consumed, log) ==
  IF S_mustStop(s)
  THEN [m |-> s, consumed |-> consumed, err |-> "none", log |-> log, scanned |-> consumed]
  ELSE S_feedRead(s, input, consumed, log, hrRead(s.headerReader, input, consumed))

\* The loop body after headerReader.read gave r.
S_feedRead(s, input, consumed, log, r) ==
  IF r.kind = "throw"
  THEN [m |-> [s EXCEPT !.headerReader = r.h], consumed |-> 0, err |-> r.err,
        log |-> log, scanned |-> r.consumed]
  ELSE IF r.kind = "null"
  THEN [m |-> [s EXCEPT !.headerReader = r.h], consumed |-> consumed, err |-> "none",
        log |-> log, scanned |-> r.consumed]
  ELSE S_feedHandled(input, r, consumed, log,
                     S_handleHeader([s EXCEPT !.headerReader = r.h], r.header))

\* The loop body after handleHeader gave d: the header is logged with what
\* it left behind (bytes queued, a file request, state Done).
S_feedHandled(input, r, before, log, d) ==
  IF d.err # "none"
  THEN [m |-> d.m, consumed |-> 0, err |-> d.err,
        log |-> Append(log, [header |-> r.header, stop |-> TRUE]),
        scanned |-> r.consumed]
  ELSE IF r.consumed = before \/ r.consumed = Len(input)
  THEN [m |-> d.m, consumed |-> r.consumed, err |-> "none",
        log |-> Append(log, [header |-> r.header,
                             stop |-> \/ d.m.outgoing # <<>>
                                      \/ d.m.pendingRequest # NoRequest
                                      \/ d.m.state = "Done"]),
        scanned |-> r.consumed]
  ELSE S_feedLoop(d.m, input, r.consumed,
                  Append(log, [header |-> r.header,
                               stop |-> \/ d.m.outgoing # <<>>
                                        \/ d.m.pendingRequest # NoRequest
                                        \/ d.m.state = "Done"]))

\* Sender.feedIncoming
S_feedIncoming(s, input) == S_feedLoop(s, input, 0, <<>>)

\* Sender.drainOutgoing: the bytes returned and the Sender left.
S_drainOutgoing(s) ==
  [data |-> SubSeq(s.outgoing, s.outgoingOffset + 1, Len(s.outgoing)),
   m |-> [s EXCEPT !.outgoing = <<>>, !.outgoingOffset = 0]]

\* Sender.advanceOutgoing / Receiver.advanceOutgoing
advanceOutgoing(m, n) ==
  LET k == m.outgoingOffset + Min(n, Len(m.outgoing) - m.outgoingOffset)
  IN IF k >= Len(m.outgoing)
     THEN [m EXCEPT !.outgoing = <<>>, !.outgoingOffset = 0]
     ELSE [m EXCEPT !.outgoingOffset = k]

\* Sender.pollEvent
S_pollEvent(s) == [event |-> s.pendingEvent, m |-> [s EXCEPT !.pendingEvent = "null"]]


(***************************************************************************)
(* Receiver (transmission.ts).                                             *)
(***************************************************************************)
\* The fields of a Receiver after construction, before the constructor body.
ReceiverFields ==
  [state |-> "SessionBegin", count |-> 0, fileName |-> <<>>, fileSize |-> 0,
   buf |-> <<>>, bufWriteOffset |-> 0, dataEncoding |-> ZBIN,
   headerReader |-> HeaderReaderInit, subpacketState |-> "Idle",
   subpacketType |-> ZCRCG, subpacketEscapePending |-> FALSE,
   crcEscapePending |-> FALSE, crcBytesRead |-> 0, crcBuf |-> <<>>,
   crc16 |-> 0, crc32 |-> Crc32Init, outgoing |-> <<>>, outgoingOffset |-> 0,
   pendingEvents |-> [i \in 0..(EVENT_QUEUE_CAP - 1) |-> "null"],
   pendingEventHead |-> 0, pendingEventLen |-> 0]

hasFileData(r) == r.subpacketState = "Writing"

pendingEventsFull(r) == r.pendingEventLen >= EVENT_QUEUE_CAP

\* Receiver.pushEvent
pushEvent(r, event) ==
  IF pendingEventsFull(r) THEN [m |-> r, err |-> "OutOfMemory"]
  ELSE [m |-> [r EXCEPT !.pendingEvents[(r.pendingEventHead + r.pendingEventLen)
                                          % EVENT_QUEUE_CAP] = event,
                        !.pendingEventLen = @ + 1],
        err |-> "none"]

\* popEvent returning the newest event.
popEvent_newest(r) ==
  IF r.pendingEventLen = 0 THEN [event |-> "null", m |-> r]
  ELSE [event |-> r.pendingEvents[(r.pendingEventHead + r.pendingEventLen - 1)
                                    % EVENT_QUEUE_CAP],
        m |-> [r EXCEPT !.pendingEvents[(r.pendingEventHead + r.pendingEventLen - 1)
                                          % EVENT_QUEUE_CAP] = "null",
                        !.pendingEventLen = @ - 1]]

\* Receiver.popEvent
popEvent(r) ==
  IF r.pendingEventLen = 0 THEN [event |-> "null", m |-> r]
  ELSE [event |-> r.pendingEvents[r.pendingEventHead],
        m |-> [r EXCEPT !.pendingEvents[r.pendingEventHead] = "null",
                        !.pendingEventHead = (@ + 1) % EVENT_QUEUE_CAP,
                        !.pendingEventLen = @ - 1]]

R_queueZrinit(r) ==
  queueBytes(r, encode(createZrinit(SUBPACKET_MAX_SIZE, CANFDX + CANFC32)))

R_queueZrpos(r, count) == queueBytes(r, encode(withCount(ZRPOS_HEADER, count)))

R_queueZack(r) == queueBytes(r, encode(withCount(ZACK_HEADER, r.count)))

R_queueZfin(r) == queueBytes(r, encode(ZFIN_HEADER))

\* new Receiver()
ReceiverNew == R_queueZrinit(ReceiverFields).m

\* Receiver.resetCrc
resetCrc(r) ==
  [r EXCEPT !.crc16 = 0, !.crc32 = Crc32Init, !.crcEscapePending = FALSE,
            !.crcBytesRead = 0, !.crcBuf = <<>>]

\* Receiver.updateCrc
updateCrc(r, byte) ==
  IF r.dataEncoding = ZBIN32
  THEN [r EXCEPT !.crc32 = crc32Update(@, byte)]
  ELSE [r EXCEPT !.crc16 = crc16Update(@, byte)]

\* What the ZFILE and ZDATA cases of handleHeader assign on entering a subpacket.
beginSubpacket(r, header, state) ==
  resetCrc([r EXCEPT !.dataEncoding = header.encoding, !.state = state,
                     !.subpacketState = "Reading",
                     !.subpacketEscapePending = FALSE,
                     !.buf = <<>>, !.bufWriteOffset = 0])

\* queueXxx(), state = ..., pushEvent(event)
thenPush(q, state, event) ==
  IF q.err # "none" THEN q ELSE pushEvent([q.m EXCEPT !.state = state], event)

\* R_handleHeader entering the subpacket whatever offset the ZDATA header names.
R_handleHeader_zdataAnyOffset(r, header) ==
  CASE header.frame = ZRQINIT /\ r.state = "SessionBegin" -> R_queueZrinit(r)
    [] header.frame = ZFILE /\ r.state \in {"SessionBegin", "FileBegin"} ->
         [m |-> beginSubpacket(r, header, "FileReadingMetadata"), err |-> "none"]
    [] header.frame = ZDATA /\ r.state = "SessionBegin" -> R_queueZrinit(r)
    [] header.frame = ZDATA /\ r.state \in {"FileBegin", "FileWaitingSubpacket"} ->
         [m |-> beginSubpacket(r, header, "FileReadingSubpacket"), err |-> "none"]
    [] /\ header.frame = ZEOF
       /\ r.state = "FileWaitingSubpacket"
       /\ HeaderCount(header) = r.count ->
         thenPush(R_queueZrinit(r), "FileBegin", "FileComplete")
    [] header.frame = ZFIN /\ r.state \in {"FileWaitingSubpacket", "FileBegin"} ->
         thenPush(R_queueZfin(r), "SessionEnd", "SessionComplete")
    [] OTHER -> [m |-> r, err |-> "none"]

\* R_handleHeader completing the file whatever count the ZEOF header names.
R_handleHeader_zeofAnyCount(r, header) ==
  CASE header.frame = ZRQINIT /\ r.state = "SessionBegin" -> R_queueZrinit(r)
    [] header.frame = ZFILE /\ r.state \in {"SessionBegin", "FileBegin"} ->
         [m |-> beginSubpacket(r, header, "FileReadingMetadata"), err |-> "none"]
    [] header.frame = ZDATA /\ r.state = "SessionBegin" -> R_queueZrinit(r)
    [] header.frame = ZDATA /\ r.state \in {"FileBegin", "FileWaitingSubpacket"} ->
         IF HeaderCount(header) # r.count THEN R_queueZrpos(r, r.count)
         ELSE [m |-> beginSubpacket(r, header, "FileReadingSubpacket"), err |-> "none"]
    [] header.frame = ZEOF /\ r.state = "FileWaitingSubpacket" ->
         thenPush(R_queueZrinit(r), "FileBegin", "FileComplete")
    [] header.frame = ZFIN /\ r.state \in {"FileWaitingSubpacket", "FileBegin"} ->
         thenPush(R_queueZfin(r), "SessionEnd", "SessionComplete")
    [] OTHER -> [m |-> r, err |-> "none"]

\* R_handleHeader acknowledging ZFIN in every state.
R_handleHeader_zfinAnyState(r, header) ==
  CASE header.frame = ZRQINIT /\ r.state = "SessionBegin" -> R_queueZrinit(r)
    [] header.frame = ZFILE /\ r.state \in {"SessionBegin", "FileBegin"} ->
         [m |-> beginSubpacket(r, header, "FileReadingMetadata"), err |-> "none"]
    [] header.frame = ZDATA /\ r.state = "SessionBegin" -> R_queueZrinit(r)
    [] header.frame = ZDATA /\ r.state \in {"FileBegin", "FileWaitingSubpacket"} ->
         IF HeaderCount(header) # r.count THEN R_queueZrpos(r, r.count)
         ELSE [m |-> beginSubpacket(r, header, "FileReadingSubpacket"), err |-> "none"]
    [] /\ header.frame = ZEOF
       /\ r.state = "FileWaitingSubpacket"
       /\ HeaderCount(header) = r.count ->
         thenPush(R_queueZrinit(r), "FileBegin", "FileComplete")
    [] header.frame = ZFIN ->
         thenPush(R_queueZfin(r), "SessionEnd", "SessionComplete")
    [] OTHER -> [m |-> r, err |-> "none"]

\* R_handleHeader accepting ZFILE in every state.
R_handleHeader_zfileAnyState(r, header) ==
  CASE header.frame = ZRQINIT /\ r.state = "SessionBegin" -> R_queueZrinit(r)
    [] header.frame = ZFILE ->
         [m |-> beginSubpacket(r, header, "FileReadingMetadata"), err |-> "none"]
    [] header.frame = ZDATA /\ r.state = "SessionBegin" -> R_queueZrinit(r)
    [] header.frame = ZDATA /\ r.state \in {"FileBegin", "FileWaitingSubpacket"} ->
         IF HeaderCount(header) # r.count THEN R_queueZrpos(r, r.count)
         ELSE [m |-> beginSubpacket(r, header, "FileReadingSubpacket"), err |-> "none"]
    [] /\ header.frame = ZEOF
       /\ r.state = "FileWaitingSubpacket"
       /\ HeaderCount(header) = r.count ->
         thenPush(R_queueZrinit(r), "FileBegin", "FileComplete")
    [] header.frame = ZFIN /\ r.state \in {"FileWaitingSubpacket", "FileBegin"} ->
         thenPush(R_queueZfin(r), "SessionEnd", "SessionComplete")
    [] OTHER -> [m |-> r, err |-> "none"]

\* R_handleHeader answering ZRQINIT in every state.
R_handleHeader_zrqinitAnyState(r, header) ==
  CASE header.frame = ZRQINIT -> R_queueZrinit(r)
    [] header.frame = ZFILE /\ r.state \in {"SessionBegin", "FileBegin"} ->
         [m |-> beginSubpacket(r, header, "FileReadingMetadata"), err |-> "none"]
    [] header.frame = ZDATA /\ r.state = "SessionBegin" -> R_queueZrinit(r)
    [] header.frame = ZDATA /\ r.state \in {"FileBegin", "FileWaitingSubpacket"} ->
         IF HeaderCount(header) # r.count THEN R_queueZrpos(r, r.count)
         ELSE [m |-> beginSubpacket(r, header, "FileReadingSubpacket"), err |-> "none"]
    [] /\ header.frame = ZEOF
       /\ r.state = "FileWaitingSubpacket"
       /\ HeaderCount(header) = r.count ->
         thenPush(R_queueZrinit(r), "FileBegin", "FileComplete")
    [] header.frame = ZFIN /\ r.state \in {"FileWaitingSubpacket", "FileBegin"} ->
         thenPush(R_queueZfin(r), "SessionEnd", "SessionComplete")
    [] OTHER -> [m |-> r, err |-> "none"]

\* Receiver.handleHeader
R_handleHeader(r, header) ==
  CASE header.frame = ZRQINIT /\ r.state = "SessionBegin" -> R_queueZrinit(r)
    [] header.frame = ZFILE /\ r.state \in {"SessionBegin", "FileBegin"} ->
         [m |-> beginSubpacket(r, header, "FileReadingMetadata"), err |-> "none"]
    [] header.frame = ZDATA /\ r.state = "SessionBegin" -> R_queueZrinit(r)
    [] header.frame = ZDATA /\ r.state \in {"FileBegin", "FileWaitingSubpacket"} ->
         IF HeaderCount(header) # r.count THEN R_queueZrpos(r, r.count)
         ELSE [m |-> beginSubpacket(r, header, "FileReadingSubpacket"), err |-> "none"]
    [] /\ header.frame = ZEOF
       /\ r.state = "FileWaitingSubpacket"
       /\ HeaderCount(header) = r.count ->
         thenPush(R_queueZrinit(r), "FileBegin", "FileComplete")
    [] header.frame = ZFIN /\ r.state \in {"FileWaitingSubpacket", "FileBegin"} ->
         thenPush(R_queueZfin(r), "SessionEnd", "SessionComplete")
    [] OTHER -> [m |-> r, err |-> "none"]

\* queueZack(), then the state and subpacket state of the ZCRCW and ZCRCQ cases.
thenSubpacket(q, state, subpacketState) ==
  IF q.err # "none" THEN q
  ELSE [m |-> [q.m EXCEPT !.state = state, !.subpacketState = subpacketState,
                          !.subpacketEscapePending = FALSE],
        err |-> "none"]

\* The switch of finishSubpacket acknowledging ZCRCG as it does ZCRCQ.
finishSwitch_ackZcrcg(r1, packet) ==
  CASE packet = ZCRCW -> thenSubpacket(R_queueZack(r1), "FileWaitingSubpacket", "Idle")
    [] packet \in {ZCRCQ, ZCRCG} -> thenSubpacket(R_queueZack(r1), r1.state, "Reading")
    [] packet = ZCRCE ->
         [m |-> [r1 EXCEPT !.state = "FileWaitingSubpacket", !.subpacketState = "Idle",
                           !.subpacketEscapePending = FALSE],
          err |-> "none"]
    [] OTHER -> [m |-> r1, err |-> "none"]

\* The switch of finishSubpacket, on the Receiver r1 the first four lines left.
finishSwitch(r1, packet) ==
  CASE packet = ZCRCW -> thenSubpacket(R_queueZack(r1), "FileWaitingSubpacket", "Idle")
    [] packet = ZCRCQ -> thenSubpacket(R_queueZack(r1), r1.state, "Reading")
    [] packet = ZCRCG ->
         [m |-> [r1 EXCEPT !.subpacketState = "Reading",
                           !.subpacketEscapePending = FALSE],
          err |-> "none"]
    [] packet = ZCRCE ->
         [m |-> [r1 EXCEPT !.state = "FileWaitingSubpacket", !.subpacketState = "Idle",
                           !.subpacketEscapePending = FALSE],
          err |-> "none"]
    [] OTHER -> [m |-> r1, err |-> "none"]

\* finishSubpacket without count += buf.length.
finishSubpacket_noCount(r, packet) ==
  finishSwitch(resetCrc([r EXCEPT !.buf = <<>>, !.bufWriteOffset = 0]), packet)

\* finishSubpacket without this.count += this.buf.length
finishSubpacket_keepCount(r, packet) ==
  finishSwitch(resetCrc([r EXCEPT !.buf = <<>>, !.bufWriteOffset = 0]), packet)

\* Receiver.finishSubpacket
finishSubpacket(r, packet) ==
  finishSwitch(resetCrc([r EXCEPT !.count = @ + Len(r.buf), !.buf = <<>>,
                                  !.bufWriteOffset = 0]),
               packet)

\* The fields of the ZFILE payload: split at every 0, a last field without
\* its 0 kept when it is not empty.
RECURSIVE splitFields(_, _, _, _)
splitFields(payload, i, fields, current) ==
  IF i > Len(payload)
  THEN IF current # <<>> THEN Append(fields, current) ELSE fields
  ELSE IF payload[i] = 0
  THEN splitFields(payload, i + 1, Append(fields, current), <<>>)
  ELSE splitFields(payload, i + 1, fields, Append(current, payload[i]))

\* sizeField.slice(0, spaceIndex), or sizeField when it holds no space.
RECURSIVE upToSpace(_, _)
upToSpace(s, i) ==
  IF i > Len(s) \/ s[i] = 32 THEN SubSeq(s, 1, i - 1) ELSE upToSpace(s, i + 1)

IsDigit(c) == c >= 48 /\ c <= 57

RECURSIVE digitsValue(_, _, _)
digitsValue(s, i, acc) ==
  IF i > Len(s) \/ ~IsDigit(s[i]) THEN acc
  ELSE digitsValue(s, i + 1, acc * 10 + (s[i] - 48))

RECURSIVE skipSpace(_, _)
skipSpace(s, i) == IF i <= Len(s) /\ IsJsSpace(s[i]) THEN skipSpace(s, i + 1) ELSE i

\* The value fileSize holds when parseInt gave NaN.
NaN == -2147483647

\* parseInt(s, 10): leading white space, an optional sign, then the longest
\* run of digits; NaN when there is no digit.
parseIntAt(s, i, j) ==
  IF j > Len(s) \/ ~IsDigit(s[j]) THEN NaN
  ELSE IF i < j /\ s[i] = 45 THEN 0 - digitsValue(s, j, 0) ELSE digitsValue(s, j, 0)

parseIntSigned(s, i) ==
  parseIntAt(s, i, IF i <= Len(s) /\ s[i] \in {43, 45} THEN i + 1 ELSE i)

parseInt10(s) == parseIntSigned(s, skipSpace(s, 1))

\* parseZfileBuf once the payload is split into fields.
parseZfileFields(r, fields) ==
  IF fields = <<>> \/ fields[1] = <<>> THEN [m |-> r, err |-> "MalformedFileName"]
  ELSE IF Len(fields) > 1
  THEN IF parseInt10(upToSpace(fields[2], 1)) = NaN
       THEN [m |-> [r EXCEPT !.fileName = fields[1], !.fileSize = NaN],
             err |-> "MalformedFileSize"]
       ELSE [m |-> [r EXCEPT !.fileName = fields[1],
                             !.fileSize = parseInt10(upToSpace(fields[2], 1)),
                             !.count = 0],
             err |-> "none"]
  ELSE [m |-> [r EXCEPT !.fileName = fields[1], !.fileSize = 0, !.count = 0],
        err |-> "none"]

\* Receiver.parseZfileBuf
parseZfileBuf(r) == parseZfileFields(r, splitFields(r.buf, 1, <<>>, <<>>))

\* buf.push(byte), updateCrc(byte)
bufPushCrc(r, byte) ==
  IF Len(r.buf) >= SUBPACKET_MAX_SIZE THEN [m |-> r, err |-> "OutOfMemory"]
  ELSE [m |-> updateCrc([r EXCEPT !.buf = Append(@, byte)], byte), err |-> "none"]

IsSubpacketType(byte) == byte \in {ZCRCE, ZCRCG, ZCRCQ, ZCRCW}

\* One byte in SubpacketState.Reading.
readingByte(r, byte) ==
  IF r.subpacketEscapePending
  THEN IF IsSubpacketType(byte)
       THEN [m |-> [updateCrc(r, byte) EXCEPT !.subpacketEscapePending = FALSE,
                                              !.subpacketType = byte,
                                              !.subpacketState = "Crc"],
             err |-> "none"]
       ELSE bufPushCrc([r EXCEPT !.subpacketEscapePending = FALSE], UNZDLE_TABLE[byte])
  ELSE IF byte = ZDLE
  THEN [m |-> [r EXCEPT !.subpacketEscapePending = TRUE], err |-> "none"]
  ELSE bufPushCrc(r, byte)

crcLen(r) == IF r.dataEncoding = ZBIN32 THEN 4 ELSE 2

\* The inner loop of SubpacketState.Crc: collects the CRC bytes.
RECURSIVE crcCollect(_, _, _)
crcCollect(r, input, consumed) ==
  IF consumed < Len(input) /\ r.crcBytesRead < crcLen(r)
  THEN IF r.crcEscapePending
       THEN crcCollect([r EXCEPT !.crcEscapePending = FALSE,
                                 !.crcBuf = Append(@, UNZDLE_TABLE[input[consumed + 1]]),
                                 !.crcBytesRead = @ + 1], input, consumed + 1)
       ELSE IF input[consumed + 1] = ZDLE
       THEN crcCollect([r EXCEPT !.crcEscapePending = TRUE], input, consumed + 1)
       ELSE crcCollect([r EXCEPT !.crcBuf = Append(@, input[consumed + 1]),
                                 !.crcBytesRead = @ + 1], input, consumed + 1)
  ELSE [m |-> r, consumed |-> consumed]

\* expected === received
crcMatches(r) ==
  IF r.dataEncoding = ZBIN32
  THEN crc32Finalize(r.crc32) = <<r.crcBuf[4] * 256 + r.crcBuf[3],
                                  r.crcBuf[2] * 256 + r.crcBuf[1]>>
  ELSE r.crc16 = r.crcBuf[1] * 256 + r.crcBuf[2]

\* queueZrpos(0), state = FileBegin, subpacketState = Idle, pushEvent(FileStart)
metadataQueued(q) ==
  IF q.err # "none" THEN q
  ELSE pushEvent([q.m EXCEPT !.state = "FileBegin", !.subpacketState = "Idle"],
                 "FileStart")

\* The metadata branch after parseZfileBuf gave p.
metadataParsed(p) ==
  IF p.err # "none" THEN p
  ELSE metadataQueued(
         R_queueZrpos(resetCrc([p.m EXCEPT !.buf = <<>>, !.bufWriteOffset = 0,
                                           !.subpacketEscapePending = FALSE]), 0))

\* The data branch: the payload waits for the caller, an empty one is finished.
subpacketVerified(r) ==
  IF r.buf = <<>>
  THEN finishSubpacket([r EXCEPT !.subpacketState = "Writing", !.bufWriteOffset = 0],
                       r.subpacketType)
  ELSE [m |-> [r EXCEPT !.subpacketState = "Writing", !.bufWriteOffset = 0],
        err |-> "none"]

\* processSubpacket's result from the result q of a step that may throw.
subpacketDone(q, consumed) ==
  [m |-> q.m, consumed |-> consumed, done |-> q.err = "none", err |-> q.err]

\* crcCollected without the comparison of the CRCs.
crcCollected_noVerify(c) ==
  IF c.m.crcBytesRead < crcLen(c.m)
  THEN [m |-> c.m, consumed |-> c.consumed, done |-> FALSE, err |-> "none"]
  ELSE IF c.m.state = "FileReadingMetadata"
  THEN subpacketDone(metadataParsed(parseZfileBuf(c.m)), c.consumed)
  ELSE subpacketDone(subpacketVerified(c.m), c.consumed)

\* SubpacketState.Crc after the inner loop gave c.
crcCollected(c) ==
  IF c.m.crcBytesRead < crcLen(c.m)
  THEN [m |-> c.m, consumed |-> c.consumed, done |-> FALSE, err |-> "none"]
  ELSE IF ~crcMatches(c.m)
  THEN [m |-> c.m, consumed |-> c.consumed, done |-> FALSE,
        err |-> IF c.m.dataEncoding = ZBIN32 THEN "UnexpectedCrc32"
                ELSE "UnexpectedCrc16"]
  ELSE IF c.m.state = "FileReadingMetadata"
  THEN subpacketDone(metadataParsed(parseZfileBuf(c.m)), c.consumed)
  ELSE subpacketDone(subpacketVerified(c.m), c.consumed)

\* Receiver.processSubpacket: the Receiver left, the offset reached, done, and
\* the error thrown if any.
RECURSIVE processSubpacket(_, _, _)
RECURSIVE subpacketRead(_, _, _)

\* processSubpacket forgetting, at the start of a call, a ZDLE that ended
\* the last chunk in the CRC.
processSubpacket_forgetCrcEscape(r, input, consumed) ==
  IF consumed >= Len(input)
  THEN [m |-> r, consumed |-> consumed, done |-> FALSE, err |-> "none"]
  ELSE CASE r.subpacketState = "Reading" ->
              subpacketRead(readingByte(r, input[consumed + 1]), input, consumed)
         [] r.subpacketState = "Crc" ->
              crcCollected(crcCollect([r EXCEPT !.crcEscapePending = FALSE],
                                      input, consumed))
         [] r.subpacketState = "Writing" ->
              [m |-> r, consumed |-> consumed, done |-> TRUE, err |-> "none"]
         [] OTHER -> [m |-> r, consumed |-> consumed, done |-> FALSE,
                      err |-> "Unsupported"]

processSubpacket(r, input, consumed) ==
  IF consumed >= Len(input)
  THEN [m |-> r, consumed |-> consumed, done |-> FALSE, err |-> "none"]
  ELSE CASE r.subpacketState = "Reading" ->
              subpacketRead(readingByte(r, input[consumed + 1]), input, consumed)
         [] r.subpacketState = "Crc" -> crcCollected(crcCollect(r, input, consumed))
         [] r.subpacketState = "Writing" ->
              [m |-> r, consumed |-> consumed, done |-> TRUE, err |-> "none"]
         [] OTHER -> [m |-> r, consumed |-> consumed, done |-> FALSE,
                      err |-> "Unsupported"]

\* SubpacketState.Reading after one byte gave q.
subpacketRead(q, input, consumed) ==
  IF q.err # "none"
  THEN [m |-> q.m, consumed |-> consumed, done |-> FALSE, err |-> q.err]
  ELSE processSubpacket(q.m, input, consumed + 1)

\* The loop of Receiver.feedIncoming; log and scanned as for the Sender.
RECURSIVE R_feedLoop(_, _, _, _)
RECURSIVE R_feedSubpacket(_, _, _, _)
RECURSIVE R_feedRead(_, _, _, _, _)
RECURSIVE R_feedHandled(_, _, _, _, _)

R_feedLoop(r, input, consumed, log) ==
  IF hasFileData(r) \/ pendingEventsFull(r)
  THEN [m |-> r, consumed |-> consumed, err |-> "none", log |-> log, scanned |-> consumed]
  ELSE IF r.state \in {"FileReadingSubpacket", "FileReadingMetadata"}
  THEN R_feedSubpacket(input, consumed, log, processSubpacket(r, input, consumed))
  ELSE R_feedRead(r, input, consumed, log, hrRead(r.headerReader, input, consumed))

\* The loop body after processSubpacket gave p.
R_feedSubpacket(input, before, log, p) ==
  IF p.err # "none"
  THEN [m |-> p.m, consumed |-> 0, err |-> p.err, log |-> log, scanned |-> p.consumed]
  ELSE IF \/ ~p.done
          \/ hasOutgoing(p.m) \/ hasFileData(p.m) \/ pendingEventsFull(p.m)
          \/ p.consumed = before
  THEN [m |-> p.m, consumed |-> p.consumed, err |-> "none", log |-> log,
        scanned |-> p.consumed]
  ELSE R_feedLoop(p.m, input, p.consumed, log)

\* The loop body after headerReader.read gave h.
R_feedRead(r, input, consumed, log, h) ==
  IF h.kind = "throw"
  THEN [m |-> [r EXCEPT !.headerReader = h.h], consumed |-> 0, err |-> h.err,
        log |-> log, scanned |-> h.consumed]
  ELSE IF h.kind = "null"
  THEN [m |-> [r EXCEPT !.headerReader = h.h], consumed |-> consumed, err |-> "none",
        log |-> log, scanned |-> h.consumed]
  ELSE R_feedHandled(input, h, consumed, log,
                     R_handleHeader([r EXCEPT !.headerReader = h.h], h.header))

\* The loop body after handleHeader gave d.
R_feedHandled(input, h, before, log, d) ==
  IF d.err # "none"
  THEN [m |-> d.m, consumed |-> 0, err |-> d.err,
        log |-> Append(log, [header |-> h.header, stop |-> TRUE]),
        scanned |-> h.consumed]
  ELSE IF \/ pendingEventsFull(d.m)
          \/ hasOutgoing(d.m)
          \/ h.consumed = before \/ h.consumed = Len(input)
  THEN [m |-> d.m, consumed |-> h.consumed, err |-> "none",
        log |-> Append(log, [header |-> h.header, stop |-> d.m.outgoing # <<>>]),
        scanned |-> h.consumed]
  ELSE R_feedLoop(d.m, input, h.consumed,
                  Append(log, [header |-> h.header, stop |-> d.m.outgoing # <<>>]))

\* Receiver.feedIncoming
R_feedIncoming(r, input) == R_feedLoop(r, input, 0, <<>>)

\* Receiver.drainOutgoing
R_drainOutgoing(r) ==
  [data |-> SubSeq(r.outgoing, r.outgoingOffset + 1, Len(r.outgoing)),
   m |-> [r EXCEPT !.outgoing = <<>>, !.outgoingOffset = 0]]

\* drainFile's result: the slice taken before finishSubpacket, which gave q.
fileDrained(data, q) == [data |-> data, m |-> q.m, err |-> q.err]

\* Receiver.drainFile
drainFile(r) ==
  IF r.subpacketState = "Writing"
  THEN fileDrained(Drop(r.buf, r.bufWriteOffset), finishSubpacket(r, r.subpacketType))
  ELSE [data |-> <<>>, m |-> r, err |-> "none"]

\* advanceFile once this.bufWriteOffset += n is done.
fileAdvanced(r) ==
  IF r.bufWriteOffset < Len(r.buf) THEN [m |-> r, err |-> "none"]
  ELSE finishSubpacket(r, r.subpacketType)

\* Receiver.advanceFile
advanceFile(r, n) ==
  IF r.subpacketState # "Writing" THEN [m |-> r, err |-> "none"]
  ELSE fileAdvanced([r EXCEPT !.bufWriteOffset =
                                 @ + Min(n, Len(r.buf) - r.bufWriteOffset)])

\* Receiver.pollEvent
R_pollEvent(r) == popEvent(r)


(***************************************************************************)
(* State.  A run constructs one machine, a Sender or a Receiver, and then  *)
(* calls its public operations in any order; the machine not constructed   *)
(* is Absent.  wire is the rest of a chunk the Receiver's caller still has *)
(* to present, the bytes beyond the count feedIncoming returned.  sHist    *)
(* and rHist are history variables over the calls made so far.             *)
(***************************************************************************)
VARIABLES sender, sHist, receiver, rHist, wire

vars == <<sender, sHist, receiver, rHist, wire>>

sVars == <<sender, sHist>>

rVars == <<receiver, rHist, wire>>

Absent == [state |-> "Absent"]

(***************************************************************************)
(* The callers' inputs.                                                    *)
(***************************************************************************)
FileNames == {<<97>>}

FileSizes == {0, 1, MaxFileSize}

\* The file the Sender's caller reads from: byte k of every file.  The
\* pattern has a byte that is escaped on the wire and a byte equal to a
\* subpacket terminator.
FilePattern == <<65, ZDLE, ZCRCG, 13>>

FileByte(k) == FilePattern[(k % Len(FilePattern)) + 1]

FileBytes(offset, n) == [i \in 1..n |-> FileByte(offset + i - 1)]

\* Well-formed headers a peer sends to the Sender: two ZRINITs (one asks for
\* the default window, one announces a buffer of two subpackets and sets
\* the bit the Sender reads as CANOVIO), ZFIN, ZNAK, ZRPOS and ZACK.
SenderWire ==
  {createZrinit(SUBPACKET_MAX_SIZE, CANFDX + CANFC32),
   Header(ZHEX, ZRINIT, <<(2 * SUBPACKET_MAX_SIZE) % 256, 0, CANOVIO, 0>>),
   ZFIN_HEADER, ZNAK_HEADER}
  \cup {withCount(ZRPOS_HEADER, n) : n \in 0..MaxFileSize}
  \cup {withCount(ZACK_HEADER, n) : n \in {SUBPACKET_MAX_SIZE, 2 * SUBPACKET_MAX_SIZE}}

\* Headers that come two in a row in the same chunk.
SenderWirePair ==
  {createZrinit(SUBPACKET_MAX_SIZE, CANFDX + CANFC32), ZFIN_HEADER,
   withCount(ZRPOS_HEADER, 0)}

\* The chunks the Sender's caller receives: one header, or two in a row.
SenderChunks ==
  {encode(h) : h \in SenderWire}
  \cup {encode(h1) \o encode(h2) : h1 \in SenderWirePair, h2 \in SenderWirePair}

\* A data subpacket as a peer that uses 16-bit CRCs sends it.
subpacket16(data, kind) ==
  writeSliceEscaped(data) \o <<ZDLE, kind>>
  \o writeSliceEscaped(Be16Bytes(crc16Xmodem(data \o <<kind>>)))

\* The payload of a ZFILE metadata subpacket.
ZfilePayload(name, size) == name \o <<0>> \o toDecimal(size) \o <<0>>

\* Bytes that hold no header preamble.
Garbage == <<65, ZPAD, 66, ZDLE>>

\* The ZFILE frames a peer sends, with 32-bit and with 16-bit CRCs.
ZfileChunks ==
  {encode(Header(ZBIN32, ZFILE, NoFlags))
     \o subpacket32(ZfilePayload(<<97>>, MaxFileSize), ZCRCW),
   encode(Header(ZBIN, ZFILE, NoFlags))
     \o subpacket16(ZfilePayload(<<97>>, MaxFileSize), ZCRCW)}

\* A subpacket whose last CRC byte is wrong.
BadCrcChunk == <<65, ZDLE, ZCRCW, 1, 2, 3, 4>>

\* The data subpackets a peer sends when the Receiver has count bytes: up to
\* one byte more than a subpacket may hold, never past MaxCount bytes in all.
DataChunks(count) ==
  {subpacket32(FileBytes(count, n), kind) :
     n \in 0..Min(SUBPACKET_MAX_SIZE + 1, MaxCount - count),
     kind \in {ZCRCG, ZCRCW}}
  \cup {subpacket32(FileBytes(count, Min(1, MaxCount - count)), kind) :
          kind \in {ZCRCE, ZCRCQ}}

\* Headers and frames a peer sends between subpackets when the Receiver has
\* count bytes: right and wrong offsets, and a ZDATA frame of two subpackets.
HeaderChunks(count) ==
  {encode(ZRQINIT_HEADER), encode(ZFIN_HEADER),
   encode(withCount(ZDATA_HEADER, count)),
   encode(withCount(ZDATA_HEADER, count + 1)),
   encode(withCount(ZEOF_HEADER, count)),
   encode(withCount(ZEOF_HEADER, count + 1)),
   encode(withCount(ZDATA_HEADER, count))
     \o subpacket32(FileBytes(count, Min(1, MaxCount - count)), ZCRCG)
     \o subpacket32(FileBytes(count + 1, Min(1, Max(MaxCount - count - 1, 0))), ZCRCW)}
  \cup ZfileChunks

\* Every chunk of the model, for a Receiver that has count bytes.
AllChunks(count) ==
  HeaderChunks(count) \cup DataChunks(count) \cup {Garbage, BadCrcChunk}

\* The chunks the Receiver's caller receives: where the Receiver reads a
\* subpacket, subpackets (good, too long, with a wrong CRC) and one header
\* out of place; elsewhere headers and frames, and bytes that are no frame.
ReceiverChunks(r) ==
  IF r.state \in {"FileReadingSubpacket", "FileReadingMetadata"}
  THEN DataChunks(r.count) \cup {BadCrcChunk, encode(ZFIN_HEADER)}
  ELSE HeaderChunks(r.count) \cup {Garbage}

\* The history of the Sender: the offset of the last ZRPOS/ZACK handed to
\* handleHeader, the file bytes fed since, and the subpackets queued since,
\* each with the window (maxSubpacketsPerAck) in force when it was queued.
SHistInit == [lastPos |-> -1, fedSince |-> 0, group |-> <<>>]

IsPos(h) == h.frame \in {ZRPOS, ZACK}

RECURSIVE LastPos(_, _)
LastPos(log, dflt) ==
  IF log = <<>> THEN dflt
  ELSE IF IsPos(log[Len(log)].header) THEN HeaderCount(log[Len(log)].header)
  ELSE LastPos(SubSeq(log, 1, Len(log) - 1), dflt)

SHistAfterFeed(h, log) ==
  IF \E i \in 1..Len(log) : IsPos(log[i].header)
  THEN [lastPos |-> LastPos(log, -1), fedSince |-> 0, group |-> <<>>]
  ELSE h

\* The history of the Receiver: the payload bytes handed to the caller by
\* drainFile and advanceFile since the last FileStart.
RHistInit == [delivered |-> 0]

\* The events a call added to the queue of r, r2 being the Receiver it left.
NewEvents(r, r2) ==
  {r2.pendingEvents[(r.pendingEventHead + k) % EVENT_QUEUE_CAP] :
     k \in r.pendingEventLen..(r2.pendingEventLen - 1)}

(***************************************************************************)
(* Sender: one action per public operation.                                *)
(***************************************************************************)
\* new Sender(initiator)
SenderInit ==
  /\ sender \in {SenderNew(initiator) : initiator \in BOOLEAN}
  /\ sHist = SHistInit
  /\ receiver = Absent
  /\ rHist = RHistInit
  /\ wire = <<>>

SFeedIncomingDo(r) ==
  /\ sender' = r.m
  /\ sHist' = SHistAfterFeed(sHist, r.log)
  /\ UNCHANGED rVars

\* The caller feeds a chunk of whole headers received from the peer.
SFeedIncoming ==
  /\ sender # Absent
  /\ \E input \in SenderChunks : SFeedIncomingDo(S_feedIncoming(sender, input))

SStartFileDo(r) ==
  /\ sender' = r.m
  /\ UNCHANGED <<sHist, rVars>>

SStartFile ==
  /\ sender # Absent
  /\ \E name \in FileNames, size \in FileSizes :
       SStartFileDo(startFile(sender, name, size))

SFinishSession ==
  /\ sender # Absent
  /\ SStartFileDo(finishSession(sender))

SFeedFileDo(n, r) ==
  /\ sender' = r.m
  /\ sHist' = IF r.err = "none"
              THEN [sHist EXCEPT !.fedSince = @ + n,
                                 !.group = Append(@, [includeHeader |-> r.includeHeader,
                                                      kind |-> r.kind,
                                                      window |-> sender.maxSubpacketsPerAck])]
              ELSE sHist
  /\ UNCHANGED rVars

\* The caller answers with n bytes of the file, read at the requested offset.
SFeedFile ==
  /\ sender # Absent
  /\ \E n \in 0..(SUBPACKET_MAX_SIZE + 1) :
       SFeedFileDo(n, feedFile(sender, FileBytes(Max(sender.pendingRequest.offset, 0), n)))

SDrainOutgoing ==
  /\ sender # Absent
  /\ sender' = S_drainOutgoing(sender).m
  /\ UNCHANGED <<sHist, rVars>>

\* The caller reports all the pending bytes written, or all but one.
SAdvanceOutgoing ==
  /\ sender # Absent
  /\ \E n \in {Len(sender.outgoing) - 1, Len(sender.outgoing)} :
       /\ n >= 0
       /\ sender' = advanceOutgoing(sender, n)
       /\ UNCHANGED <<sHist, rVars>>

SPollEvent ==
  /\ sender # Absent
  /\ sender' = S_pollEvent(sender).m
  /\ UNCHANGED <<sHist, rVars>>

\* Sender.pollFile returns the pending request and changes nothing.
SPollFile ==
  /\ sender # Absent
  /\ UNCHANGED vars

SenderNext ==
  \/ SFeedIncoming
  \/ SStartFile
  \/ SFinishSession
  \/ SFeedFile
  \/ SDrainOutgoing
  \/ SAdvanceOutgoing
  \/ SPollEvent
  \/ SPollFile

(***************************************************************************)
(* Receiver: one action per public operation.                              *)
(***************************************************************************)
\* new Receiver()
ReceiverInit ==
  /\ receiver = ReceiverNew
  /\ rHist = RHistInit
  /\ wire = <<>>
  /\ sender = Absent
  /\ sHist = SHistInit

RFeedIncomingDo(input, r) ==
  /\ receiver' = r.m
  /\ wire' = IF r.err # "none" \/ r.consumed = 0 THEN <<>> ELSE Drop(input, r.consumed)
  /\ rHist' = IF "FileStart" \in NewEvents(receiver, r.m)
              THEN [rHist EXCEPT !.delivered = 0]
              ELSE rHist
  /\ UNCHANGED sVars

\* The caller presents the rest of the last chunk or, when it has none, a
\* new chunk.  It keeps the bytes beyond the returned count, and gives the
\* chunk up when the call throws or consumes nothing.
RFeedIncoming ==
  /\ receiver # Absent
  /\ \E input \in (IF wire # <<>> THEN {wire} ELSE ReceiverChunks(receiver)) :
       RFeedIncomingDo(input, R_feedIncoming(receiver, input))

RDrainOutgoing ==
  /\ receiver # Absent
  /\ receiver' = R_drainOutgoing(receiver).m
  /\ UNCHANGED <<sVars, rHist, wire>>

\* The caller reports all the pending bytes written.
RAdvanceOutgoing ==
  /\ receiver # Absent
  /\ receiver' = advanceOutgoing(receiver, Len(receiver.outgoing))
  /\ UNCHANGED <<sVars, rHist, wire>>

RDrainFileDo(r) ==
  /\ receiver' = r.m
  /\ rHist' = [rHist EXCEPT !.delivered = @ + Len(r.data)]
  /\ UNCHANGED <<sVars, wire>>

RDrainFile ==
  /\ receiver # Absent
  /\ RDrainFileDo(drainFile(receiver))

RAdvanceFileDo(n, r) ==
  /\ receiver' = r.m
  /\ rHist' = IF hasFileData(receiver)
              THEN [rHist EXCEPT !.delivered =
                       @ + Min(n, Len(receiver.buf) - receiver.bufWriteOffset)]
              ELSE rHist
  /\ UNCHANGED <<sVars, wire>>

RAdvanceFile ==
  /\ receiver # Absent
  /\ \E n \in {1, SUBPACKET_MAX_SIZE} : RAdvanceFileDo(n, advanceFile(receiver, n))

RPollEvent ==
  /\ receiver # Absent
  /\ receiver' = R_pollEvent(receiver).m
  /\ UNCHANGED <<sVars, rHist, wire>>

ReceiverNext ==
  \/ RFeedIncoming
  \/ RDrainOutgoing
  \/ RAdvanceOutgoing
  \/ RDrainFile
  \/ RAdvanceFile
  \/ RPollEvent

(***************************************************************************)
(* The specification: one machine is constructed and then driven.          *)
(***************************************************************************)
\* A run that constructs a Sender.
SenderSpec == SenderInit /\ [][SenderNext]_vars

\* A run that constructs a Receiver.
ReceiverSpec == ReceiverInit /\ [][ReceiverNext]_vars

Init == SenderInit \/ ReceiverInit

Next == SenderNext \/ ReceiverNext

Spec == Init /\ [][Next]_vars

(***************************************************************************)
(* Fragmentation.  The Sender's caller holds a stream of well-formed       *)
(* headers in wire.  It feeds the first k bytes, for any k, and keeps the  *)
(* bytes beyond the returned count to present them again; between calls it *)
(* drains the outgoing bytes and polls the event.  sHist records the       *)
(* stream, the headers dispatched and the first error thrown.              *)
(***************************************************************************)
FragStreams ==
  {encode(createZrinit(SUBPACKET_MAX_SIZE, CANFDX + CANFC32)),
   encode(withCount(ZRPOS_HEADER, 0))}

FragInit ==
  /\ sender \in {SenderNew(initiator) : initiator \in BOOLEAN}
  /\ wire \in FragStreams
  /\ sHist = [stream |-> wire, log |-> <<>>, err |-> "none", calls |-> 0]
  /\ receiver = Absent
  /\ rHist = RHistInit

\* The headers of a feedIncoming log.
RECURSIVE LogHeaders(_)
LogHeaders(log) ==
  IF log = <<>> THEN <<>> ELSE <<log[1].header>> \o LogHeaders(Tail(log))

FragFeedDo(r) ==
  /\ sender' = r.m
  /\ wire' = IF r.err = "none" THEN Drop(wire, r.consumed) ELSE wire
  /\ sHist' = [sHist EXCEPT !.log = @ \o LogHeaders(r.log),
                            !.err = IF @ = "none" THEN r.err ELSE @,
                            !.calls = IF @ < 2 THEN @ + 1 ELSE @]
  /\ UNCHANGED <<receiver, rHist>>

FragFeed ==
  \E k \in 1..Len(wire) : FragFeedDo(S_feedIncoming(sender, Take(wire, k)))

\* drainOutgoing() and pollEvent()
FragService ==
  /\ sender' = S_pollEvent(S_drainOutgoing(sender).m).m
  /\ UNCHANGED <<sHist, receiver, rHist, wire>>

FragNext == FragFeed \/ FragService

SpecFrag == FragInit /\ [][FragNext]_vars

(***************************************************************************)
(* Garbage.  A fresh Receiver is fed a stream that holds no header         *)
(* preamble (no ZPAD directly followed by ZDLE), cut into chunks at any    *)
(* points, every chunk fed once.  rHist records the stream, the sum of the *)
(* returned counts, the first error thrown and the calls made.             *)
(***************************************************************************)
MaxGarbage == 4

GarbageBytes == {ZPAD, ZDLE, ZHEX, 13}

NoPreamble(s) == \A i \in 1..(Len(s) - 1) : ~(s[i] = ZPAD /\ s[i + 1] = ZDLE)

GarbageStreams ==
  {s \in UNION {[1..n -> GarbageBytes] : n \in 1..MaxGarbage} : NoPreamble(s)}

GarbageInit ==
  /\ receiver = ReceiverNew
  /\ wire \in GarbageStreams
  /\ rHist = [stream |-> wire, consumed |-> 0, err |-> "none", calls |-> 0]
  /\ sender = Absent
  /\ sHist = SHistInit

GarbageFeedDo(k, r) ==
  /\ receiver' = r.m
  /\ wire' = Drop(wire, k)
  /\ rHist' = [rHist EXCEPT !.consumed = @ + r.consumed,
                            !.err = IF @ = "none" THEN r.err ELSE @,
                            !.calls = @ + 1]
  /\ UNCHANGED sVars

GarbageFeed ==
  \E k \in 1..Len(wire) : GarbageFeedDo(k, R_feedIncoming(receiver, Take(wire, k)))

SpecGarbage == GarbageInit /\ [][GarbageFeed]_vars

(***************************************************************************)
(* Properties.                                                             *)
(***************************************************************************)
(***************************************************************************)
(* Header round trip.  A fresh HeaderReader is fed the bytes of one        *)
(* encoded header, whole or byte by byte; in half of the runs one byte of  *)
(* the header's payload is replaced on the way.  rHist records the header, *)
(* the reader, the headers it returned and the first error it threw.       *)
(***************************************************************************)
\* Flags of every kind of byte: plain, escaped, with the high bit.
RoundTripFlags ==
  {<<0, 0, 0, 0>>, <<1, 2, 3, 4>>, <<255, 255, 255, 255>>, <<ZDLE, ZPAD, XON, 13>>,
   <<16, 17, 19, 24>>, <<144, 145, 147, 152>>, <<64, 13, 192, 141>>,
   <<127, 255, 128, 64>>}

\* Every encoding, every frame type, the flags above; and, for a frame of
\* each encoding, every value of a byte in every place of the flags.
RoundTripHeaders ==
  {Header(enc, frame, flags) :
     enc \in {ZBIN, ZHEX, ZBIN32}, frame \in 0..19, flags \in RoundTripFlags}
  \cup {Header(enc, ZDATA, <<b, (b + 85) % 256, (b + 170) % 256, 255 - b>>) :
          enc \in {ZBIN, ZHEX, ZBIN32}, b \in 0..255}

\* The place of the first byte of the payload in an encoded header.
PayloadStart(h) == IF h.encoding = ZHEX THEN 5 ELSE 4

\* An encoded header with one byte of its payload replaced.
Damaged(h) ==
  [encode(h) EXCEPT ![PayloadStart(h) + 1] = IF @ = 97 THEN 98 ELSE 97]

RoundTripInit ==
  /\ rHist \in {[header |-> h, damaged |-> damaged, reader |-> HeaderReaderInit,
                 yielded |-> <<>>, err |-> "none"] :
                  h \in RoundTripHeaders, damaged \in BOOLEAN}
  /\ wire = IF rHist.damaged THEN Damaged(rHist.header) ELSE encode(rHist.header)
  /\ receiver = Absent
  /\ sender = Absent
  /\ sHist = SHistInit

\* read(input, 0) gave res: a header, an error, or null at the end of input.
RoundTripFeedDo(k, res) ==
  /\ rHist' = [rHist EXCEPT !.reader = res.h,
                            !.yielded = IF res.kind = "header" THEN Append(@, res.header)
                                        ELSE @,
                            !.err = IF @ = "none" THEN res.err ELSE @]
  /\ wire' = IF res.kind = "header" THEN Drop(wire, res.consumed) ELSE Drop(wire, k)
  /\ UNCHANGED <<sender, sHist, receiver>>

\* The caller presents the next byte, or all the bytes it has.
RoundTripFeed ==
  /\ wire # <<>>
  /\ \E k \in {1, Len(wire)} :
       RoundTripFeedDo(k, hrRead(rHist.reader, Take(wire, k), 0))

SpecRoundTrip == RoundTripInit /\ [][RoundTripFeed]_vars

(***************************************************************************)
(* Preamble.  A fresh Sender and a fresh Receiver are fed the same stream  *)
(* of preamble and other bytes, one byte a call.  rHist records the        *)
(* stream, the byte the Receiver's header reader saw last while seeking    *)
(* (-1 when it was not seeking), and what the last calls threw and read.   *)
(***************************************************************************)
MaxPreamble == 5

\* ZPAD, ZDLE, an encoding, and two bytes that are none of them.
PreambleBytes == {ZPAD, ZDLE, ZHEX, 13, 68}

PreambleStreams == UNION {[1..n -> PreambleBytes] : n \in 1..MaxPreamble}

PreambleInit ==
  /\ wire \in PreambleStreams
  /\ rHist = [stream |-> wire, lastSeek |-> -1, errR |-> "none", errS |-> "none",
              scannedR |-> 0, scannedS |-> 0]
  /\ receiver = ReceiverNew
  /\ sender = SenderNew(FALSE)
  /\ sHist = SHistInit

\* feedIncoming of the next byte gave s in the Sender and r in the Receiver.
PreambleFeedDo(s, r) ==
  /\ sender' = s.m
  /\ receiver' = r.m
  /\ rHist' = [rHist EXCEPT
                 !.lastSeek = IF receiver.headerReader.state = "SeekingZpad"
                              THEN wire[1] ELSE -1,
                 !.errR = r.err, !.errS = s.err,
                 !.scannedR = r.scanned, !.scannedS = s.scanned]
  /\ wire' = Tail(wire)
  /\ UNCHANGED sHist

PreambleFeed ==
  /\ wire # <<>>
  /\ PreambleFeedDo(S_feedIncoming(sender, <<wire[1]>>),
                    R_feedIncoming(receiver, <<wire[1]>>))

SpecPreamble == PreambleInit /\ [][PreambleFeed]_vars

IsPrefix(a, b) == Len(a) <= Len(b) /\ SubSeq(b, 1, Len(a)) = a

C1Unchanged(r, res) ==
  /\ res.err = "none"
  /\ res.consumed = 0
  /\ res.m.state = r.state
  /\ res.m.count = r.count
  /\ res.m.pendingEvents = r.pendingEvents
  /\ res.m.pendingEventLen = r.pendingEventLen
  /\ res.m.buf = r.buf
  /\ res.m.outgoing = r.outgoing
  /\ res.m.outgoingOffset = r.outgoingOffset

\* C1: Receiver backpressure.  In every reachable Receiver state whose
\* outgoing buffer is non-empty, feedIncoming of any chunk returns 0 and
\* leaves the state, the count, the event queue, the file buffer and the
\* outgoing buffer as they were.
C1_ReceiverBackpressure ==
  (receiver # Absent /\ hasOutgoing(receiver)) =>
    \A input \in AllChunks(receiver.count) :
      C1Unchanged(receiver, R_feedIncoming(receiver, input))

C2Holds(s, res) ==
  /\ (hasOutgoing(s) \/ s.pendingRequest # NoRequest \/ s.state = "Done") =>
       (res.err = "none" /\ res.consumed = 0 /\ res.m = s /\ res.log = <<>>)
  /\ \A i \in 1..(Len(res.log) - 1) : ~res.log[i].stop

\* C2: Sender backpressure.  feedIncoming returns 0 and leaves every field
\* of the Sender unchanged when it is called with outgoing bytes pending,
\* with a file request pending or in state Done; and within one call no
\* header is handed to handleHeader after one that queued outgoing bytes,
\* published a file request or reached Done.
C2_SenderBackpressure ==
  sender # Absent =>
    \A input \in SenderChunks : C2Holds(sender, S_feedIncoming(sender, input))

\* A call that stops short of the end of its input because the header it
\* dispatched queued bytes, published a request or reached Done.
C2Stops(res, input) ==
  /\ res.log # <<>>
  /\ res.log[Len(res.log)].stop
  /\ res.consumed > 0
  /\ res.consumed < Len(input)

\* A Sender with a file and outgoing bytes pending refuses a chunk; once
\* drained, it dispatches the first header of a chunk of two and stops there.
C2_Witness ==
  /\ sender # Absent
  /\ hasOutgoing(sender)
  /\ sender.state = "WaitReceiverInit"
  /\ sender.hasFile
  /\ \E input \in SenderChunks :
       /\ S_feedIncoming(sender, input).consumed = 0
       /\ C2Stops(S_feedIncoming(S_drainOutgoing(sender).m, input), input)

\* C3: the Receiver's outgoing buffer is append-only until drained.  Every
\* step either keeps the bytes already queued at the front of the buffer or
\* is the drain (or full advance) that hands them to the caller.
C3_ReceiverAppendOnly ==
  [][(receiver # Absent /\ receiver.outgoing # <<>>) =>
       \/ IsPrefix(receiver.outgoing, receiver'.outgoing)
       \/ receiver' = R_drainOutgoing(receiver).m]_vars

\* C4: the Sender's outgoing buffer is never overwritten while non-empty.
\* A step from a state with queued bytes leaves them in place, unread part
\* included, or is the drain (or advance) that hands them to the caller.
C4_SenderNoOverwrite ==
  [][(sender # Absent /\ sender.outgoing # <<>>) =>
       \/ /\ sender'.outgoing = sender.outgoing
          /\ sender'.outgoingOffset >= sender.outgoingOffset
       \/ /\ sender'.outgoing = <<>>
          /\ sender' = S_drainOutgoing(sender).m]_vars

\* A Sender between two subpackets of a window, the first still queued: a
\* further feedFile is refused.
C4_Witness ==
  /\ sender # Absent
  /\ sender.state = "NeedFileData"
  /\ sender.outgoing # <<>>
  /\ sender.outgoingOffset > 0
  /\ feedFile(sender, FileBytes(sender.pendingRequest.offset, 1)).err = "Unsupported"

\* C5: consumed-count accounting under fragmentation.  However the caller
\* cuts a stream of well-formed headers, presenting again exactly the bytes
\* beyond each returned count, no call throws and the headers dispatched
\* are those a one-piece feed dispatches, each once.
C5_FragmentationAccounting ==
  /\ sHist.err = "none"
  /\ IsPrefix(sHist.log,
              LogHeaders(S_feedIncoming(SenderNew(FALSE), sHist.stream).log))

\* C6: a stream without a header preamble, fed to a fresh Receiver in any
\* fragmentation, raises no error, yields no file data and no events, leaves
\* the Receiver in SessionBegin with the initial ZRINIT as its outgoing
\* bytes, and once it is all fed the counts returned add up to the count a
\* one-piece feed returns.
C6_GarbageIgnored ==
  /\ rHist.err = "none"
  /\ receiver.state = "SessionBegin"
  /\ ~hasFileData(receiver)
  /\ receiver.buf = <<>>
  /\ receiver.pendingEventLen = 0
  /\ receiver.outgoing = ReceiverNew.outgoing
  /\ receiver.outgoingOffset = 0
  /\ wire = <<>> =>
       rHist.consumed = R_feedIncoming(ReceiverNew, rHist.stream).consumed

\* A stream of MaxGarbage bytes, one of them ZPAD, one ZDLE, fed in three
\* calls or more.
C6_Witness ==
  /\ wire = <<>>
  /\ Len(rHist.stream) = MaxGarbage
  /\ rHist.calls >= 3
  /\ \E i \in 1..MaxGarbage : rHist.stream[i] = ZPAD
  /\ \E i \in 1..MaxGarbage : rHist.stream[i] = ZDLE

C7SenderStays ==
  (sender # Absent /\ sender.state = "Done") =>
    /\ sender'.state = "Done"
    /\ sender'.outgoing \in {sender.outgoing, <<>>}
    /\ sender'.outgoingOffset >= sender.outgoingOffset \/ sender'.outgoing = <<>>
    /\ sender'.pendingEvent \in {sender.pendingEvent, "null"}
    /\ sender'.pendingRequest = NoRequest

C7ReceiverStays ==
  (receiver # Absent /\ receiver.state = "SessionEnd") =>
    /\ receiver'.state = "SessionEnd"
    /\ receiver'.outgoing \in {receiver.outgoing, <<>>}
    /\ receiver'.outgoingOffset >= receiver.outgoingOffset \/ receiver'.outgoing = <<>>
    /\ receiver'.pendingEventLen <= receiver.pendingEventLen
    /\ NewEvents(receiver, receiver') = {}
    /\ ~hasFileData(receiver')

\* C7: terminal states are absorbing.  From a Sender in Done or a Receiver
\* in SessionEnd no operation changes the state, queues outgoing bytes or
\* produces an event.
C7_TerminalAbsorbing == [][C7SenderStays /\ C7ReceiverStays]_vars

\* A Receiver in SessionEnd that reads and drops a whole header.
C7_Witness ==
  /\ receiver # Absent
  /\ receiver.state = "SessionEnd"
  /\ ~hasOutgoing(receiver)
  /\ receiver.pendingEventLen = 0
  /\ R_feedIncoming(receiver, encode(ZRQINIT_HEADER)).consumed > 0

\* C8: the Receiver's count.  Within one file count never decreases (it
\* goes back to 0 only in the step that emits FileStart), and whenever no
\* subpacket awaits the caller it equals the payload bytes handed to the
\* caller by drainFile/advanceFile since FileStart.
C8_ReceiverCount ==
  [][receiver # Absent =>
       /\ receiver'.count >= receiver.count
          \/ "FileStart" \in NewEvents(receiver, receiver')
       /\ ~hasFileData(receiver') => receiver'.count = rHist'.delivered]_vars

\* All MaxCount bytes of a file verified, handed to the caller and counted.
C8_Witness ==
  /\ receiver # Absent
  /\ receiver.state = "FileWaitingSubpacket"
  /\ ~hasFileData(receiver)
  /\ receiver.count = MaxCount
  /\ rHist.delivered = MaxCount

\* C9: the Sender's file request.  A request is pending exactly in state
\* NeedFileData; its offset is the offset of the last ZRPOS/ZACK plus the
\* bytes fed with feedFile since, and its length is at least 1 and at most
\* min(maxSubpacketSize, fileSize - offset).
C9_SenderFileRequest ==
  sender # Absent =>
    /\ sender.pendingRequest # NoRequest <=> sender.state = "NeedFileData"
    /\ sender.pendingRequest # NoRequest =>
         /\ sender.pendingRequest.offset = sHist.lastPos + sHist.fedSince
         /\ sender.pendingRequest.len >= 1
         /\ sender.pendingRequest.len
              <= Min(sender.maxSubpacketSize,
                     sender.fileSize - sender.pendingRequest.offset)

\* A request that follows a subpacket fed after a ZRPOS at a non-zero offset.
C9_Witness ==
  /\ sender # Absent
  /\ sender.pendingRequest # NoRequest
  /\ sHist.lastPos > 0
  /\ sHist.fedSince > 0
  /\ sender.pendingRequest.len < sender.maxSubpacketSize

\* C10: the Sender's window.  In the subpackets queued since the last
\* ZRPOS/ZACK the ZDATA header goes with the first and no other; all but
\* the last end in ZCRCG; there are no more than maxSubpacketsPerAck; the
\* last ends in ZCRCW exactly when the group is over, and the Sender is
\* then in WaitFileAck with no request pending, else in NeedFileData.
C10_SenderWindow ==
  (sender # Absent /\ sHist.group # <<>>) =>
    /\ \A i \in 1..Len(sHist.group) : sHist.group[i].includeHeader <=> i = 1
    /\ \A i \in 1..(Len(sHist.group) - 1) : sHist.group[i].kind = ZCRCG
    /\ \A i \in 1..Len(sHist.group) : i <= sHist.group[i].window
    /\ sHist.group[Len(sHist.group)].kind \in {ZCRCG, ZCRCW}
    /\ sHist.group[Len(sHist.group)].kind = ZCRCW =>
         sender.state = "WaitFileAck" /\ sender.pendingRequest = NoRequest
    /\ sHist.group[Len(sHist.group)].kind = ZCRCG => sender.state = "NeedFileData"

\* A window of two subpackets, closed by the count and not by the file's end.
C10_Witness ==
  /\ sender # Absent
  /\ Len(sHist.group) = 2
  /\ sHist.group[2].kind = ZCRCW
  /\ sHist.group[2].window = 2
  /\ sHist.lastPos + sHist.fedSince < sender.fileSize

\* The ZRINITs a Receiver builds with createZrinit: buffers smaller than,
\* equal to and larger than a subpacket, with and without CANOVIO.
ZrinitOffers ==
  {createZrinit(b, caps) :
     b \in {1, SUBPACKET_MAX_SIZE, 2 * SUBPACKET_MAX_SIZE, 3 * SUBPACKET_MAX_SIZE + 1},
     caps \in {CANFDX + CANFC32, CANFDX + CANOVIO + CANFC32}}

\* What the claim asks of the Sender m left by a ZRINIT announcing a buffer
\* of b bytes, canOvio telling whether it advertises CANOVIO.
C11Negotiated(m, b, canOvio) ==
  /\ m.maxSubpacketSize = Min(SUBPACKET_MAX_SIZE, b)
  /\ m.maxSubpacketsPerAck =
       IF canOvio THEN Max(1, b \div Min(SUBPACKET_MAX_SIZE, b)) ELSE 1

\* C11: capability negotiation.  After the Sender handles a ZRINIT with a
\* non-zero buffer size B, maxSubpacketSize is min(SUBPACKET_MAX_SIZE, B),
\* and maxSubpacketsPerAck is max(1, floor(B / maxSubpacketSize)) when the
\* ZRINIT advertises CANOVIO in the byte createZrinit puts the capability
\* flags in, and 1 otherwise.
C11_CapabilityNegotiation ==
  sender # Absent =>
    \A h \in ZrinitOffers :
      C11Negotiated(S_handleHeader(sender, h).m,
                    h.flags[1] + 256 * h.flags[2],
                    And8(h.flags[4], CANOVIO) # 0)

\* The headers that carry a position: ZRPOS and ZACK, with offsets inside the
\* file, at its end and past it.
PositionHeaders ==
  {withCount(h, n) : h \in {ZRPOS_HEADER, ZACK_HEADER}, n \in 0..(MaxFileSize + 1)}

\* What the claim asks of the result res of feeding the position n to the
\* Sender s.
C12Positioned(s, n, res) ==
  /\ res.err = "none"
  /\ res.consumed > 0
  /\ IF n >= s.fileSize
     THEN /\ res.m.state = "WaitFileDone"
          /\ res.m.pendingRequest = NoRequest
          /\ res.m.outgoing = encode(withCount(ZEOF_HEADER, n))
          /\ res.m.outgoingOffset = 0
     ELSE /\ res.m.state = "NeedFileData"
          /\ res.m.pendingRequest.offset = n
          /\ res.m.pendingRequest.len =
               (IF s.fileSize - n < s.maxSubpacketSize
                THEN s.fileSize - n ELSE s.maxSubpacketSize)
          /\ res.m.frameNeedsHeader
          /\ \E k \in 1..(MaxFileSize + 1) :
               /\ k * s.maxSubpacketSize >= s.fileSize - n
               /\ (k - 1) * s.maxSubpacketSize < s.fileSize - n
               /\ res.m.frameRemaining =
                    (IF s.maxSubpacketsPerAck < k THEN s.maxSubpacketsPerAck ELSE k)
          /\ res.m.outgoing = <<>>

\* C12: position handling.  A ZRPOS(n) or ZACK(n) read in WaitFilePos or
\* WaitFileAck with n >= fileSize queues ZEOF(n), clears the request and
\* enters WaitFileDone; with n < fileSize it enters NeedFileData with the
\* request (n, min(maxSubpacketSize, fileSize - n)), frameNeedsHeader set
\* and frameRemaining = min(maxSubpacketsPerAck,
\* ceil((fileSize - n) / maxSubpacketSize)).
C12_PositionHandling ==
  (/\ sender # Absent
   /\ sender.state \in {"WaitFilePos", "WaitFileAck"}
   /\ ~hasOutgoing(sender)) =>
    \A h \in PositionHeaders :
      C12Positioned(sender, HeaderCount(h), S_feedIncoming(sender, encode(h)))

\* A Sender waiting for the acknowledgement of a window of two subpackets,
\* with more of the file left than one window holds.
C12_Witness ==
  /\ sender # Absent
  /\ sender.state = "WaitFileAck"
  /\ ~hasOutgoing(sender)
  /\ sender.maxSubpacketsPerAck = 2
  /\ sender.fileSize = MaxFileSize
  /\ S_feedIncoming(sender, encode(withCount(ZACK_HEADER, SUBPACKET_MAX_SIZE))).m.frameRemaining = 2

\* Whether bytes are a ZFILE frame: the ZFILE header and a subpacket after it.
IsZfileFrame(bytes) ==
  /\ IsPrefix(encode(Header(ZBIN32, ZFILE, NoFlags)), bytes)
  /\ Len(bytes) > Len(encode(Header(ZBIN32, ZFILE, NoFlags)))

\* What the claim asks of the result res of feeding a ZRINIT to the Sender s
\* in WaitReceiverInit.
C13ShakenHands(s, res) ==
  /\ res.err = "none"
  /\ res.consumed > 0
  /\ IF s.hasFile
     THEN res.m.state = "WaitFilePos" /\ IsZfileFrame(res.m.outgoing)
     ELSE IF s.finishRequested
     THEN res.m.state = "WaitFinish" /\ res.m.outgoing = encode(ZFIN_HEADER)
     ELSE /\ res.m.state = "ReadyForFile"
          /\ res.m.outgoing = <<>>
          /\ res.m.pendingEvent = "null"

SenderHeaders == SenderWire \cup ZrinitOffers \cup PositionHeaders

\* What the claim asks of the result res of feeding the header h to a Sender
\* s that holds no unread FileComplete.
C14Fed(s, h, res) ==
  /\ res.m.pendingEvent = "FileComplete" <=>
       (s.state = "WaitFileDone" /\ ~hasOutgoing(s) /\ h.frame = ZRINIT)
  /\ res.m.pendingEvent = "FileComplete" =>
       /\ ~res.m.hasFile
       /\ IF s.finishRequested
          THEN res.m.state = "WaitFinish" /\ res.m.outgoing = encode(ZFIN_HEADER)
          ELSE res.m.state = "ReadyForFile" /\ res.m.outgoing = <<>>

\* No FileComplete from the operations that read no header.
C14Silent(s) ==
  /\ \A name \in FileNames, size \in FileSizes :
       startFile(s, name, size).m.pendingEvent # "FileComplete"
  /\ finishSession(s).m.pendingEvent # "FileComplete"
  /\ \A n \in 0..(SUBPACKET_MAX_SIZE + 1) :
       feedFile(s, FileBytes(Max(s.pendingRequest.offset, 0), n)).m.pendingEvent
         # "FileComplete"
  /\ S_drainOutgoing(s).m.pendingEvent # "FileComplete"

\* C14: file completion.  The Sender publishes FileComplete exactly when it
\* reads a ZRINIT in WaitFileDone; it then clears hasFile and, when
\* finishSession was called, queues ZFIN and enters WaitFinish, else enters
\* ReadyForFile.  No other operation or header publishes FileComplete.
C14_FileCompletion ==
  (sender # Absent /\ sender.pendingEvent # "FileComplete") =>
    /\ \A h \in SenderHeaders : C14Fed(sender, h, S_feedIncoming(sender, encode(h)))
    /\ C14Silent(sender)

\* A Sender that has sent ZEOF and was asked to finish, the ZEOF drained.
C14_Witness ==
  /\ sender # Absent
  /\ sender.state = "WaitFileDone"
  /\ ~hasOutgoing(sender)
  /\ sender.pendingEvent = "null"
  /\ sender.finishRequested
  /\ \E h \in ZrinitOffers :
       S_feedIncoming(sender, encode(h)).m.pendingEvent = "FileComplete"

\* What the claim asks of the result res of feeding ZFIN or ZRINIT to a
\* Sender in WaitFinish.
C15Finished(res) ==
  /\ res.err = "none"
  /\ res.m.state = "Done"
  /\ res.m.outgoing = <<79, 79>>
  /\ res.m.outgoingOffset = 0
  /\ res.m.pendingEvent = "SessionComplete"

\* C15: session termination.  In WaitFinish the first ZFIN or ZRINIT read
\* queues exactly the two bytes 0x4F 0x4F, enters Done and publishes
\* SessionComplete; a ZFIN fed in any other state queues nothing, publishes
\* nothing and changes nothing.
C15_SessionTermination ==
  sender # Absent =>
    /\ (sender.state = "WaitFinish" /\ ~hasOutgoing(sender)) =>
         \A h \in {ZFIN_HEADER} \cup ZrinitOffers :
           C15Finished(S_feedIncoming(sender, encode(h)))
    /\ sender.state # "WaitFinish" =>
         S_feedIncoming(sender, encode(ZFIN_HEADER)).m = sender

\* A Sender in WaitFinish, its ZFIN drained, that reads the peer's ZFIN.
C15_Witness ==
  /\ sender # Absent
  /\ sender.state = "WaitFinish"
  /\ ~hasOutgoing(sender)
  /\ S_feedIncoming(sender, encode(ZFIN_HEADER)).m.state = "Done"

\* What the claim asks of the result res of startFile(name, size) on the
\* Sender s.
C16Started(s, name, size, res) ==
  CASE s.state = "WaitReceiverInit" ->
         /\ res.err = "none"
         /\ res.m = [s EXCEPT !.fileName = name, !.fileSize = size, !.hasFile = TRUE]
    [] s.state = "ReadyForFile" ->
         /\ res.err = "none"
         /\ res.m.state = "WaitFilePos"
         /\ IsZfileFrame(res.m.outgoing)
         /\ res.m.outgoingOffset = 0
         /\ res.m.fileName = name
         /\ res.m.fileSize = size
         /\ res.m.hasFile
    [] OTHER -> res.err = "Unsupported" /\ res.m = s

C17Refused(s, n, res) ==
  IF s.state # "NeedFileData" \/ s.pendingRequest = NoRequest
  THEN res.err = "Unsupported" /\ res.m = s
  ELSE (\/ n = 0
        \/ n > s.pendingRequest.len
        \/ n > s.fileSize - s.pendingRequest.offset) =>
         (res.err = "UnexpectedEof" /\ res.m = s)

\* C17: feedFile throws Unsupported when the state is not NeedFileData or no
\* request is pending, and UnexpectedEof when the chunk is empty, longer
\* than the request or longer than what is left of the file; after each
\* such failure the Sender is exactly as before the call.
C17_FeedFileErrors ==
  sender # Absent =>
    \A n \in 0..(SUBPACKET_MAX_SIZE + 1) :
      C17Refused(sender, n,
                 feedFile(sender, FileBytes(Max(sender.pendingRequest.offset, 0), n)))

\* A request for less than a full subpacket, answered with one byte more.
C17_Witness ==
  /\ sender # Absent
  /\ sender.state = "NeedFileData"
  /\ ~hasOutgoing(sender)
  /\ sender.pendingRequest.len < SUBPACKET_MAX_SIZE
  /\ feedFile(sender, FileBytes(sender.pendingRequest.offset,
                                sender.pendingRequest.len + 1)).err = "UnexpectedEof"

\* What the claim asks of one operation that takes the Sender s to m:
\* the latch stays set, and ZFIN is newly queued only when allowed, and
\* then with the Sender in WaitFinish.
C18Op(s, m, allowed) ==
  /\ s.finishRequested => m.finishRequested
  /\ (m.outgoing = encode(ZFIN_HEADER) /\ s.outgoing # m.outgoing) =>
       (allowed /\ m.state = "WaitFinish" /\ m.finishRequested)
  /\ (allowed /\ ~hasOutgoing(s)) =>
       (m.outgoing = encode(ZFIN_HEADER) /\ m.state = "WaitFinish")

\* The states in which a ZRINIT makes a Sender asked to finish send ZFIN.
C18ZfinDue(s, h) ==
  /\ h.frame = ZRINIT
  /\ s.finishRequested
  /\ s.state = "WaitFileDone" \/ (s.state = "WaitReceiverInit" /\ ~s.hasFile)

\* finishSession itself: the latch is set; outside ReadyForFile nothing
\* else changes.
C18Latched(s, res) ==
  /\ res.err = "none"
  /\ res.m.finishRequested
  /\ s.state # "ReadyForFile" => res.m = [s EXCEPT !.finishRequested = TRUE]

ZdataEncodings == {ZBIN, ZBIN32, ZHEX}

\* The offsets a ZDATA or ZEOF header names to a Receiver that has count
\* bytes: the right one, the next one and the start of the file.
OffsetsNear(count) == {count, count + 1, 0}

\* The payload that follows a ZDATA header at offset n: a subpacket that
\* holds the bytes of a header preamble and one file byte.
ZdataPayload(n) == subpacket32(<<ZPAD, ZDLE>> \o FileBytes(n, 1), ZCRCW)

\* Nothing of the frame is handed to the caller: r2 holds no file data and
\* is where r was.
C19Skipped(r, r2) ==
  /\ r2.subpacketState # "Writing"
  /\ r2.state = r.state
  /\ r2.count = r.count

\* The header h, first in the chunk input and read by r, gave res; what
\* follows the header is presented once the ZRPOS is drained.
C19Checked(r, h, input, res) ==
  (res.log # <<>> /\ res.log[1].header = h) =>
    IF HeaderCount(h) # r.count
    THEN /\ res.err = "none"
         /\ res.m.outgoing = encode(withCount(ZRPOS_HEADER, r.count))
         /\ res.m.outgoingOffset = 0
         /\ res.consumed \in 1..Len(encode(h))
         /\ NewEvents(r, res.m) = {}
         /\ C19Skipped(r, res.m)
         /\ C19Skipped(r, R_feedIncoming(R_drainOutgoing(res.m).m,
                                         Drop(input, res.consumed)).m)
    ELSE /\ res.err = "none"
         /\ res.m.dataEncoding = h.encoding
         /\ res.m.state = "FileReadingSubpacket"
         /\ res.m.subpacketState = "Reading"
         /\ res.m.count = r.count
         /\ res.m.outgoing = r.outgoing

\* The frame a peer sends to a Receiver that has count bytes: the header
\* alone when it names the count, the header and its payload otherwise.
ZdataFrame(h, count) ==
  IF HeaderCount(h) = count THEN encode(h)
  ELSE encode(h) \o ZdataPayload(HeaderCount(h))

\* C19: a ZDATA header read in FileBegin or FileWaitingSubpacket whose
\* offset differs from the Receiver's count queues ZRPOS(count), leaves
\* state and count unchanged, and no payload byte of the frame reaches
\* the caller; one whose offset equals the count latches the header's
\* encoding and enters FileReadingSubpacket.
C19_ReceiverOffsetCheck ==
  (receiver # Absent /\ receiver.state \in {"FileBegin", "FileWaitingSubpacket"}) =>
    \A n \in OffsetsNear(receiver.count), enc \in ZdataEncodings :
      C19Checked(receiver, Header(enc, ZDATA, withCount(ZDATA_HEADER, n).flags),
                 ZdataFrame(Header(enc, ZDATA, withCount(ZDATA_HEADER, n).flags),
                            receiver.count),
                 R_feedIncoming(receiver,
                                ZdataFrame(Header(enc, ZDATA, withCount(ZDATA_HEADER, n).flags),
                                           receiver.count)))

\* A Receiver that has bytes of the file, waits for a header and has
\* answered a ZDATA header with ZRPOS at its own count.
C19_Witness ==
  /\ receiver # Absent
  /\ receiver.state = "FileWaitingSubpacket"
  /\ receiver.count > 0
  /\ receiver.outgoing = encode(withCount(ZRPOS_HEADER, receiver.count))
  /\ R_feedIncoming(receiver, encode(withCount(ZDATA_HEADER, 0))).log # <<>>

\* The ZEOF headers a peer sends to a Receiver that has count bytes.
ZeofHeaders(count) ==
  {Header(enc, ZEOF, withCount(ZEOF_HEADER, n).flags) :
     enc \in {ZBIN32, ZHEX}, n \in OffsetsNear(count)}

\* The ZEOF header h, read by r, gave res.
C20Ended(r, h, res) ==
  (res.log # <<>> /\ res.log[1].header = h) =>
    IF r.state = "FileWaitingSubpacket" /\ HeaderCount(h) = r.count
    THEN /\ res.err = "none"
         /\ NewEvents(r, res.m) = {"FileComplete"}
         /\ res.m.pendingEventLen = r.pendingEventLen + 1
         /\ res.m.outgoing = encode(createZrinit(SUBPACKET_MAX_SIZE, CANFDX + CANFC32))
         /\ res.m.outgoingOffset = 0
         /\ res.m.state = "FileBegin"
    ELSE /\ res.err = "none"
         /\ res.m = [r EXCEPT !.headerReader = res.m.headerReader]

\* A call that gave res added FileComplete only if it read a ZEOF header
\* that names the count of r, with r in FileWaitingSubpacket when read.
C20OnlyZeof(r, res) ==
  "FileComplete" \in NewEvents(r, res.m) =>
    /\ res.m.state = "FileBegin"
    /\ res.m.count = r.count
    /\ \E i \in 1..Len(res.log) :
         /\ res.log[i].header.frame = ZEOF
         /\ HeaderCount(res.log[i].header) = r.count
         /\ \A j \in 1..(i - 1) : res.log[j].header.frame \in {ZRQINIT, ZEOF}
    /\ r.state = "FileWaitingSubpacket"

\* C20: the Receiver emits FileComplete, queueing ZRINIT and entering
\* FileBegin, exactly when it reads a ZEOF header in FileWaitingSubpacket
\* whose count equals its own; a ZEOF header read in any other state or
\* with another count gives no event, no outgoing bytes and no state change.
C20_ReceiverFileComplete ==
  receiver # Absent =>
    /\ \A h \in ZeofHeaders(receiver.count) :
         C20Ended(receiver, h, R_feedIncoming(receiver, encode(h)))
    /\ \A input \in ReceiverChunks(receiver) :
         C20OnlyZeof(receiver, R_feedIncoming(receiver, input))

\* A Receiver that has a whole file of at least one byte, waits for a
\* header and completes the file on the ZEOF header at its count.
C20_Witness ==
  /\ receiver # Absent
  /\ receiver.state = "FileWaitingSubpacket"
  /\ receiver.count > 0
  /\ "FileComplete" \in NewEvents(receiver,
        R_feedIncoming(receiver, encode(withCount(ZEOF_HEADER, receiver.count))).m)

\* The ZFIN headers a peer sends.
ZfinHeaders == {Header(enc, ZFIN, NoFlags) : enc \in {ZBIN, ZBIN32, ZHEX}}

\* The Receiver r was presented a ZFIN header h and the call gave res.
C21Finished(r, h, res) ==
  IF r.state \in {"FileBegin", "FileWaitingSubpacket"}
  THEN (res.log # <<>> /\ res.log[1].header = h) =>
         /\ res.err = "none"
         /\ NewEvents(r, res.m) = {"SessionComplete"}
         /\ res.m.pendingEventLen = r.pendingEventLen + 1
         /\ res.m.outgoing = encode(ZFIN_HEADER)
         /\ res.m.outgoingOffset = 0
         /\ res.m.state = "SessionEnd"
         /\ R_feedIncoming(res.m, encode(h)).m.pendingEventLen = res.m.pendingEventLen
         /\ R_feedIncoming(res.m, encode(h)).m.state = "SessionEnd"
  ELSE /\ res.m.state = r.state
       /\ res.m.pendingEventLen = r.pendingEventLen
       /\ res.m.pendingEvents = r.pendingEvents
       /\ (res.log # <<>>) => res.m = [r EXCEPT !.headerReader = res.m.headerReader]

\* Every ZFIN header presented to the Receiver is treated as C21 says.
C21ZfinHandled ==
  receiver # Absent =>
    \A h \in ZfinHeaders : C21Finished(receiver, h, R_feedIncoming(receiver, encode(h)))

\* A step adds SessionComplete only by acknowledging ZFIN from FileBegin or
\* FileWaitingSubpacket, and a Receiver in SessionEnd adds no event at all.
C21Once ==
  receiver # Absent =>
    /\ "SessionComplete" \in NewEvents(receiver, receiver') =>
         /\ receiver.state \in {"FileBegin", "FileWaitingSubpacket"}
         /\ receiver'.state = "SessionEnd"
         /\ receiver'.outgoing = encode(ZFIN_HEADER)
         /\ receiver'.pendingEventLen = receiver.pendingEventLen + 1
    /\ receiver.state = "SessionEnd" =>
         /\ receiver'.state = "SessionEnd"
         /\ receiver'.pendingEventLen <= receiver.pendingEventLen

\* C21: a ZFIN header read in FileBegin or FileWaitingSubpacket makes the
\* Receiver queue a ZFIN header, enter SessionEnd and emit SessionComplete
\* exactly once; a ZFIN presented in SessionBegin, FileReadingMetadata,
\* FileReadingSubpacket or SessionEnd gives no event and no state change.
C21_ReceiverZfin == [] C21ZfinHandled /\ [][C21Once]_vars

\* A Receiver in the middle of a file that acknowledges ZFIN.
C21_Witness ==
  /\ receiver # Absent
  /\ receiver.state = "FileWaitingSubpacket"
  /\ receiver.count > 0
  /\ R_feedIncoming(receiver, encode(ZFIN_HEADER)).m.state = "SessionEnd"

\* The errors of a CRC that does not match.
CrcErrors == {"UnexpectedCrc32", "UnexpectedCrc16"}

\* The subpacket a peer builds for the data encoding the Receiver latched.
subpacketFor(r, data, kind) ==
  IF r.dataEncoding = ZBIN32 THEN subpacket32(data, kind) ELSE subpacket16(data, kind)

\* A subpacket with its last CRC byte replaced by another one.
Corrupted(bytes) ==
  [bytes EXCEPT ![Len(bytes)] = IF @ = 65 THEN 66 ELSE 65]

\* The Receiver has read a whole subpacket and all of its CRC: this is so
\* only after the comparison failed.
CrcFailed(r) == r.subpacketState = "Crc" /\ r.crcBytesRead >= crcLen(r)

\* The Receiver reads subpackets and is at the start of one.
AtSubpacketStart(r) ==
  /\ r.state \in {"FileReadingSubpacket", "FileReadingMetadata"}
  /\ r.subpacketState = "Reading"
  /\ ~r.subpacketEscapePending
  /\ r.buf = <<>>
  /\ r.crc16 = 0
  /\ r.crc32 = Crc32Init
  /\ ~pendingEventsFull(r)

\* feedIncoming, of a subpacket whose CRC is wrong, gave res.
C22Refused(r, res) ==
  /\ res.err = IF r.dataEncoding = ZBIN32 THEN "UnexpectedCrc32" ELSE "UnexpectedCrc16"
  /\ res.m.count = r.count
  /\ res.m.state = r.state
  /\ res.m.pendingEvents = r.pendingEvents
  /\ res.m.pendingEventHead = r.pendingEventHead
  /\ res.m.pendingEventLen = r.pendingEventLen
  /\ res.m.outgoing = r.outgoing
  /\ res.m.outgoingOffset = r.outgoingOffset
  /\ CrcFailed(res.m)
  /\ drainFile(res.m).data = <<>>

\* Every subpacket with a wrong CRC is refused.
C22Raised ==
  (receiver # Absent /\ AtSubpacketStart(receiver)) =>
    \A n \in 0..1, kind \in {ZCRCE, ZCRCG, ZCRCQ, ZCRCW} :
      C22Refused(receiver,
                 R_feedIncoming(receiver,
                   Corrupted(subpacketFor(receiver, FileBytes(receiver.count, n), kind))))

\* Once the comparison failed no step hands a byte to the caller: the
\* Receiver stays as the failure left it, with the count it had.
C22Kept ==
  (receiver # Absent /\ CrcFailed(receiver)) =>
    /\ CrcFailed(receiver')
    /\ receiver'.count = receiver.count
    /\ receiver'.state = receiver.state
    /\ rHist' = rHist

\* C22: a data subpacket whose trailing CRC does not match its payload and
\* terminator makes feedIncoming throw UnexpectedCrc32 (UnexpectedCrc16
\* when the frame is not ZBIN32); count, state, event queue and outgoing
\* buffer are unchanged, and drainFile never returns a byte of it.
C22_SubpacketCrcFailure == [] C22Raised /\ [][C22Kept]_vars

\* A Receiver with bytes of the file whose last subpacket had a wrong CRC.
C22_Witness ==
  /\ receiver # Absent
  /\ receiver.state = "FileReadingSubpacket"
  /\ receiver.count > 0
  /\ CrcFailed(receiver)
  /\ receiver.buf # <<>>

\* ZFILE frames a peer sends: the name, the size the metadata gives, the
\* bytes, and whether the frame is a good one (its CRC right, its name not
\* empty).
ZfileFrames ==
  {[name |-> <<97>>, size |-> 0, good |-> TRUE,
    bytes |-> encode(Header(ZBIN32, ZFILE, NoFlags))
                \o subpacket32(ZfilePayload(<<97>>, 0), ZCRCW)],
   [name |-> <<98>>, size |-> 7, good |-> TRUE,
    bytes |-> encode(Header(ZBIN, ZFILE, NoFlags))
                \o subpacket16(ZfilePayload(<<98>>, 7), ZCRCW)],
   [name |-> <<99, 100>>, size |-> 0, good |-> TRUE,
    bytes |-> encode(Header(ZBIN32, ZFILE, NoFlags))
                \o subpacket32(<<99, 100, 0>>, ZCRCW)],
   [name |-> <<>>, size |-> 0, good |-> FALSE,
    bytes |-> encode(Header(ZBIN32, ZFILE, NoFlags))
                \o subpacket32(<<0, 49, 0>>, ZCRCW)],
   [name |-> <<97>>, size |-> 1, good |-> FALSE,
    bytes |-> encode(Header(ZBIN32, ZFILE, NoFlags))
                \o Corrupted(subpacket32(ZfilePayload(<<97>>, 1), ZCRCW))]}

\* The caller's second call: the bytes the first call, which gave res, left.
FedRest(bytes, res) ==
  IF res.err = "none" /\ res.consumed > 0 /\ res.consumed < Len(bytes)
  THEN R_feedIncoming(res.m, Drop(bytes, res.consumed))
  ELSE res

\* The Receiver r was presented the ZFILE frame f; the call that read the
\* header gave res and the one that read the last byte gave last.
C23Started(r, f, res, last) ==
  /\ "FileStart" \in NewEvents(r, last.m) =>
       /\ r.state \in {"SessionBegin", "FileBegin"}
       /\ f.good
       /\ last.err = "none"
       /\ res.log # <<>> /\ res.log[1].header.frame = ZFILE
       /\ NewEvents(r, last.m) = {"FileStart"}
       /\ last.m.pendingEventLen = r.pendingEventLen + 1
       /\ last.m.count = 0
       /\ last.m.outgoing = encode(withCount(ZRPOS_HEADER, 0))
       /\ last.m.outgoingOffset = 0
       /\ last.m.state = "FileBegin"
       /\ last.m.fileName = f.name
       /\ last.m.fileSize = f.size
  /\ (/\ r.state \in {"SessionBegin", "FileBegin"}
      /\ f.good
      /\ res.log # <<>> /\ res.log[1].header.frame = ZFILE) =>
       "FileStart" \in NewEvents(r, last.m)

\* Every ZFILE frame presented to the Receiver is treated as C23 says.
C23FileStarted ==
  receiver # Absent =>
    \A f \in ZfileFrames :
      C23Started(receiver, f, R_feedIncoming(receiver, f.bytes),
                 FedRest(f.bytes, R_feedIncoming(receiver, f.bytes)))

\* A step adds FileStart only on the way from reading the metadata, or from
\* the header that precedes it, to FileBegin with count 0 and ZRPOS(0) queued.
C23Step ==
  (receiver # Absent /\ "FileStart" \in NewEvents(receiver, receiver')) =>
    /\ receiver.state \in {"SessionBegin", "FileBegin", "FileReadingMetadata"}
    /\ receiver'.state = "FileBegin"
    /\ receiver'.count = 0
    /\ receiver'.outgoing = encode(withCount(ZRPOS_HEADER, 0))
    /\ receiver'.fileName # <<>>
    /\ receiver'.fileSize >= 0

\* C23: FileStart is emitted only after a ZFILE header was accepted in
\* SessionBegin or FileBegin and its metadata subpacket passed the CRC
\* comparison and the parsing; at that moment count is 0, ZRPOS(0) is
\* queued, the state is FileBegin and fileName and fileSize hold the
\* metadata.
C23_FileStart == [] C23FileStarted /\ [][C23Step]_vars

\* A second file: FileStart in a Receiver that has completed a file.
C23_Witness ==
  /\ receiver # Absent
  /\ receiver.state = "FileBegin"
  /\ receiver.count = 0
  /\ receiver.pendingEventLen >= 2
  /\ receiver.pendingEvents[(receiver.pendingEventHead + receiver.pendingEventLen - 1)
                             % EVENT_QUEUE_CAP] = "FileStart"
  /\ receiver.pendingEvents[(receiver.pendingEventHead + receiver.pendingEventLen - 2)
                             % EVENT_QUEUE_CAP] = "FileComplete"

\* The events of the queue, the oldest first.
QueueSeq(r) ==
  [k \in 1..r.pendingEventLen |->
     r.pendingEvents[(r.pendingEventHead + k - 1) % EVENT_QUEUE_CAP]]

\* pollEvent gave res: the oldest event, the others kept in their order.
C24Polled(r, res) ==
  IF r.pendingEventLen = 0 THEN res.event = "null" /\ res.m = r
  ELSE /\ res.event = Head(QueueSeq(r))
       /\ res.event # "null"
       /\ QueueSeq(res.m) = Tail(QueueSeq(r))

\* feedIncoming gave res: nothing is consumed while the queue is full, and
\* an OutOfMemory it throws is not that of pushEvent, which leaves the
\* queue full.
C24Fed(r, res) ==
  /\ pendingEventsFull(r) =>
       (res.consumed = 0 /\ res.scanned = 0 /\ res.err = "none" /\ res.m = r)
  /\ res.err = "OutOfMemory" => ~pendingEventsFull(res.m)
  /\ res.m.pendingEventLen <= 4

C24Queue ==
  receiver # Absent =>
    /\ receiver.pendingEventLen <= 4
    /\ C24Polled(receiver, R_pollEvent(receiver))
    /\ \A input \in ReceiverChunks(receiver) :
         C24Fed(receiver, R_feedIncoming(receiver, input))

\* A step appends the events it produces behind those of the queue, or
\* takes the oldest one away.
C24Step ==
  receiver # Absent =>
    \/ IsPrefix(QueueSeq(receiver), QueueSeq(receiver'))
    \/ QueueSeq(receiver') = Tail(QueueSeq(receiver))

\* C24: the Receiver's event queue never holds more than 4 events, pushing
\* an event never throws OutOfMemory, feedIncoming consumes nothing while
\* the queue is full, and pollEvent returns the events in the order they
\* were produced, each once.
C24_ReceiverEventQueue == [] C24Queue /\ [][C24Step]_vars

\* A full queue of the events of two files, and bytes the caller offers.
C24_Witness ==
  /\ receiver # Absent
  /\ pendingEventsFull(receiver)
  /\ QueueSeq(receiver) = <<"FileStart", "FileComplete", "FileStart", "FileComplete">>
  /\ R_pollEvent(receiver).event = "FileStart"

\* C25: for every encoding, every frame type 0..19 and the flags of the
\* model, the header reader fed encode(header), whole or byte by byte,
\* returns one header with the same encoding, frame and flags, hence the
\* same count, and throws nothing; a header whose payload does not match
\* its CRC is never returned.
C25_HeaderRoundTrip ==
  /\ rHist.damaged => rHist.yielded = <<>>
  /\ ~rHist.damaged =>
       /\ rHist.err = "none"
       /\ rHist.yielded \in {<<>>, <<rHist.header>>}
       /\ \A i \in 1..Len(rHist.yielded) :
            HeaderCount(rHist.yielded[i]) = HeaderCount(rHist.header)
       /\ wire = <<>> => rHist.yielded = <<rHist.header>>
       /\ rHist.yielded = <<>> => Len(wire) >= (IF rHist.header.encoding = ZHEX THEN 3 ELSE 1)

\* A header with escaped bytes in its flags, read back byte by byte.
C25_Witness ==
  /\ ~rHist.damaged
  /\ wire = <<>>
  /\ rHist.header.encoding = ZBIN32
  /\ rHist.header.flags = <<ZDLE, ZPAD, XON, 13>>
  /\ rHist.yielded = <<rHist.header>>

\* ZRINIT headers of a receiver that can take 32-bit CRCs and of one that
\* cannot.
Crc32Offers ==
  {createZrinit(SUBPACKET_MAX_SIZE, caps) : caps \in {CANFDX, CANFDX + CANFC32}}

\* Whether bytes begin with a binary ZFILE, ZDATA or ZEOF header.
IsFileFrame(bytes) ==
  /\ Len(bytes) >= 4
  /\ bytes[1] = ZPAD /\ bytes[2] = ZDLE
  /\ bytes[3] \in {ZBIN, ZBIN32}
  /\ bytes[4] \in {ZFILE, ZDATA, ZEOF}

\* The frame out, queued for the receiver that sent the ZRINIT h, has
\* 32-bit CRCs only when h advertises CANFC32.
C26Framed(h, out) ==
  IsFileFrame(out) => (out[3] = ZBIN32 <=> And8(h.flags[4], CANFC32) # 0)

\* The ZRINIT h made the Sender queue ZFILE and left s1; the ZRPOS that
\* answers it gives the ZEOF of an empty file, or the request whose data is
\* sent in a ZDATA frame.
C26Session(h, s1) ==
  IsFileFrame(s1.outgoing) =>
    /\ C26Framed(h, s1.outgoing)
    /\ C26Framed(h, S_feedIncoming(S_drainOutgoing(s1).m,
                                   encode(withCount(ZRPOS_HEADER, s1.fileSize))).m.outgoing)
    /\ s1.fileSize > 0 =>
         C26Framed(h, feedFile(S_feedIncoming(S_drainOutgoing(s1).m,
                                              encode(withCount(ZRPOS_HEADER, 0))).m,
                               FileBytes(0, 1)).m.outgoing)

\* C26: the Sender queues ZBIN32-framed ZFILE, ZDATA and ZEOF only when the
\* most recent ZRINIT advertised CANFC32; toward a receiver that did not,
\* it frames them with 16-bit CRCs.
C26_SenderHonorsCanfc32 ==
  (sender # Absent /\ ~hasOutgoing(sender)) =>
    \A h \in Crc32Offers : C26Session(h, S_feedIncoming(sender, encode(h)).m)

\* The frame that resumes the file at the Receiver's count: a ZDATA header
\* and one subpacket of one byte.
ResumeFrame(r) ==
  encode(withCount(ZDATA_HEADER, r.count)) \o subpacket32(FileBytes(r.count, 1), ZCRCW)

\* feedIncoming of the resuming frame gave res: the subpacket is accepted
\* and drainFile hands its byte to the caller.
C27Resumed(r, res) ==
  /\ res.err = "none"
  /\ hasFileData(res.m)
  /\ drainFile(res.m).data = FileBytes(r.count, 1)

\* C27: after feedIncoming threw a CRC failure on a data subpacket the
\* Receiver can continue: a valid ZDATA header at offset count followed
\* by a valid subpacket is accepted and delivered through drainFile.
C27_CrcRecovery ==
  (/\ receiver # Absent
   /\ receiver.state = "FileReadingSubpacket"
   /\ CrcFailed(receiver)
   /\ ~pendingEventsFull(receiver)) =>
    C27Resumed(receiver, R_feedIncoming(receiver, ResumeFrame(receiver)))

\* What the terminator of the subpacket asks: r holds the subpacket, m is
\* the Receiver once the caller has consumed it.
C28ByTerminator(r, m) ==
  CASE r.subpacketType = ZCRCW ->
         /\ m.outgoing = encode(withCount(ZACK_HEADER, m.count))
         /\ m.outgoingOffset = 0
         /\ m.state = "FileWaitingSubpacket"
         /\ m.subpacketState = "Idle"
    [] r.subpacketType = ZCRCQ ->
         /\ m.outgoing = encode(withCount(ZACK_HEADER, m.count))
         /\ m.outgoingOffset = 0
         /\ m.state = "FileReadingSubpacket"
         /\ m.subpacketState = "Reading"
    [] r.subpacketType = ZCRCG ->
         /\ m.outgoing = r.outgoing
         /\ m.outgoingOffset = r.outgoingOffset
         /\ m.state = "FileReadingSubpacket"
         /\ m.subpacketState = "Reading"
    [] r.subpacketType = ZCRCE ->
         /\ m.outgoing = r.outgoing
         /\ m.outgoingOffset = r.outgoingOffset
         /\ m.state = "FileWaitingSubpacket"
         /\ m.subpacketState = "Idle"
    [] OTHER -> FALSE

\* The caller consumed the subpacket r holds; res is what the call gave.
C28Completed(r, res) ==
  /\ res.err = "none"
  /\ res.m.count = r.count + Len(r.buf)
  /\ res.m.buf = <<>>
  /\ res.m.bufWriteOffset = 0
  /\ res.m.crc16 = 0
  /\ res.m.crc32 = Crc32Init
  /\ res.m.crcBuf = <<>>
  /\ res.m.crcBytesRead = 0
  /\ ~res.m.crcEscapePending
  /\ NewEvents(r, res.m) = {}
  /\ C28ByTerminator(r, res.m)

\* C28: when the caller finishes consuming a verified data subpacket, by
\* drainFile or by the advanceFile that reaches its end, count grows by
\* the payload length and payload buffer and CRC accumulators are reset;
\* ZCRCW queues ZACK(count) and enters FileWaitingSubpacket, ZCRCQ queues
\* ZACK(count) and keeps reading, ZCRCG queues nothing and keeps reading,
\* ZCRCE queues nothing and enters FileWaitingSubpacket.
C28_SubpacketCompletion ==
  (receiver # Absent /\ hasFileData(receiver)) =>
    /\ receiver.state = "FileReadingSubpacket"
    /\ C28Completed(receiver, drainFile(receiver))
    /\ drainFile(receiver).data = Drop(receiver.buf, receiver.bufWriteOffset)
    /\ \A n \in 1..SUBPACKET_MAX_SIZE :
         IF n >= Len(receiver.buf) - receiver.bufWriteOffset
         THEN C28Completed(receiver, advanceFile(receiver, n))
         ELSE advanceFile(receiver, n).m =
                [receiver EXCEPT !.bufWriteOffset = @ + n]

\* A verified ZCRCQ subpacket of one byte in a Receiver that has
\* bytes of the file.
C28_Witness ==
  /\ receiver # Absent
  /\ hasFileData(receiver)
  /\ receiver.subpacketType = ZCRCQ
  /\ receiver.count > 0
  /\ receiver.buf # <<>>
  /\ drainFile(receiver).m.outgoing = encode(withCount(ZACK_HEADER, receiver.count + 1))

\* The reader h, seeking, saw the byte b after the byte last and became h2.
C29Sought(h, last, b, h2) ==
  /\ h2.state \in {"SeekingZpad", "ReadingEncoding"}
  /\ h2.state = "ReadingEncoding" <=> (b = ZDLE /\ last = ZPAD)
  /\ (b # ZPAD /\ b # ZDLE) => h2.zpadState = "Idle"
  /\ (b = ZDLE /\ h.zpadState = "Idle") => h2 = h
  /\ h.zpadState = "Idle" <=> last # ZPAD
  /\ h2.buf = <<>>

\* One byte fed while the readers seek the preamble.
C29Step ==
  receiver.headerReader.state = "SeekingZpad" =>
    /\ C29Sought(receiver.headerReader, rHist.lastSeek, wire[1], receiver'.headerReader)
    /\ sender'.headerReader = receiver'.headerReader
    /\ rHist'.errR = "none" /\ rHist'.errS = "none"
    /\ rHist'.scannedR = 1 /\ rHist'.scannedS = 1

\* C29: the header reader leaves SeekingZpad for ReadingEncoding exactly
\* when a ZDLE byte immediately follows one or more ZPAD bytes; a byte
\* other than ZPAD or ZDLE seen after a ZPAD returns the substate to Idle,
\* a ZDLE seen in Idle is skipped, and every byte seen while seeking is
\* consumed without an error.
C29_PreambleDetection == [][C29Step]_vars

\* Two ZPADs and a ZDLE after other bytes: the reader waits for the
\* encoding byte.
C29_Witness ==
  /\ Len(rHist.stream) - Len(wire) >= 4
  /\ SubSeq(rHist.stream, Len(rHist.stream) - Len(wire) - 2,
            Len(rHist.stream) - Len(wire)) = <<ZPAD, ZPAD, ZDLE>>
  /\ receiver.headerReader.state = "ReadingEncoding"
  /\ rHist.errR = "none"

\* A well-formed header fed to the Sender s and to the Receiver r is
\* decoded and handed to handleHeader.
C30Decodes(s, r) ==
  /\ S_feedIncoming(s, encode(createZrinit(SUBPACKET_MAX_SIZE, CANFDX + CANFC32))).log
       = <<[header |-> createZrinit(SUBPACKET_MAX_SIZE, CANFDX + CANFC32), stop |-> FALSE]>>
  /\ S_feedIncoming(s, encode(createZrinit(SUBPACKET_MAX_SIZE, CANFDX + CANFC32))).m.state
       = "ReadyForFile"
  /\ LogHeaders(R_feedIncoming(r, encode(Header(ZBIN32, ZFILE, NoFlags))).log)
       = <<Header(ZBIN32, ZFILE, NoFlags)>>
  /\ R_feedIncoming(r, encode(Header(ZBIN32, ZFILE, NoFlags))).m.state
       = "FileReadingMetadata"

\* One byte fed while the readers wait for the encoding byte.
C30Step ==
  receiver.headerReader.state = "ReadingEncoding" =>
    IF wire[1] \in {65, 66, 67}
    THEN /\ rHist'.errR = "none" /\ rHist'.errS = "none"
         /\ receiver'.headerReader.state = "ReadingData"
         /\ receiver'.headerReader.encoding = wire[1]
         /\ sender'.headerReader = receiver'.headerReader
    ELSE /\ rHist'.errR = "MalformedPacket" /\ rHist'.errS = "MalformedPacket"
         /\ receiver' = [receiver EXCEPT !.headerReader = HeaderReaderInit]
         /\ sender' = [sender EXCEPT !.headerReader = HeaderReaderInit]
         /\ HeaderReaderInit.state = "SeekingZpad"
         /\ HeaderReaderInit.zpadState = "Idle"
         /\ HeaderReaderInit.buf = <<>>
         /\ C30Decodes(sender', receiver')

\* C30: an encoding byte outside {0x41, 0x42, 0x43} after the preamble
\* makes feedIncoming throw MalformedPacket and leaves the header reader
\* in SeekingZpad/Idle with empty buffers, so that a well-formed header
\* fed afterwards is decoded; protocol state, outgoing buffer and events
\* of the machine are as before the failure.
C30_BadEncodingByte == [][C30Step]_vars

\* The byte after ZPAD ZDLE was 0x44: the call threw and the reader seeks.
C30_Witness ==
  /\ Len(rHist.stream) - Len(wire) >= 3
  /\ SubSeq(rHist.stream, Len(rHist.stream) - Len(wire) - 2,
            Len(rHist.stream) - Len(wire)) = <<ZPAD, ZDLE, 68>>
  /\ rHist.errR = "MalformedPacket"
  /\ rHist.errS = "MalformedPacket"
  /\ receiver.headerReader = HeaderReaderInit
  /\ receiver.outgoing # <<>>

(***************************************************************************)
(* Split subpackets.  A Receiver that has read a ZFILE frame and a ZDATA   *)
(* header at offset 0 is fed one subpacket, in chunks cut at any points.   *)
(* rHist records the payload, the terminator, whether the CRC was damaged, *)
(* the bytes of the subpacket, the Receiver at its start, the places where *)
(* a chunk ended and the error thrown.                                     *)
(***************************************************************************)
MaxSplitPayload == 2

\* Payload bytes: ZDLE and XON, which are escaped, and two that are not.
SplitBytes == {ZDLE, XON, 65, 0}

SplitPayloads == UNION {[1..n -> SplitBytes] : n \in 1..MaxSplitPayload}

\* The Receiver once the ZFILE frame is read and its ZRPOS drained.
SplitFileBegun ==
  R_drainOutgoing(
    FedRest(encode(Header(ZBIN32, ZFILE, NoFlags))
              \o subpacket32(ZfilePayload(<<97>>, MaxFileSize), ZCRCW),
            R_feedIncoming(ReceiverNew,
                           encode(Header(ZBIN32, ZFILE, NoFlags))
                             \o subpacket32(ZfilePayload(<<97>>, MaxFileSize), ZCRCW))).m).m

\* The Receiver at the start of the first subpacket of a ZDATA frame whose
\* header has the encoding enc.
SplitStart(enc) ==
  R_feedIncoming(SplitFileBegun, encode(Header(enc, ZDATA, NoFlags))).m

SplitSubpacket(enc, data, kind, damaged) ==
  IF damaged
  THEN Corrupted(IF enc = ZBIN32 THEN subpacket32(data, kind) ELSE subpacket16(data, kind))
  ELSE IF enc = ZBIN32 THEN subpacket32(data, kind) ELSE subpacket16(data, kind)

SplitInit ==
  /\ rHist \in {[data |-> data, kind |-> kind, damaged |-> damaged,
                 stream |-> SplitSubpacket(enc, data, kind, damaged),
                 start |-> SplitStart(enc), cuts |-> {}, err |-> "none"] :
                  enc \in {ZBIN, ZBIN32}, data \in SplitPayloads,
                  kind \in {ZCRCE, ZCRCG, ZCRCQ, ZCRCW}, damaged \in BOOLEAN}
  /\ receiver = rHist.start
  /\ wire = rHist.stream
  /\ sender = Absent
  /\ sHist = SHistInit

\* feedIncoming of the first k bytes left gave res.
SplitFeedDo(k, res) ==
  /\ receiver' = res.m
  /\ wire' = IF res.err # "none" THEN <<>> ELSE Drop(wire, res.consumed)
  /\ rHist' = [rHist EXCEPT !.cuts = @ \cup {Len(rHist.stream) - Len(wire) + k},
                            !.err = res.err]
  /\ UNCHANGED sVars

SplitFeed ==
  /\ wire # <<>>
  /\ ~hasFileData(receiver)
  /\ \E k \in 1..Len(wire) : SplitFeedDo(k, R_feedIncoming(receiver, Take(wire, k)))

SpecSplit == SplitInit /\ [][SplitFeed]_vars

\* The place of the terminator in the bytes of the subpacket.
TerminatorAt(h) == Len(writeSliceEscaped(h.data)) + 2

\* The subpacket is read to its end in chunks; whole is what feedIncoming
\* gives for the subpacket in one chunk.
C31Same(whole) ==
  /\ receiver = whole.m
  /\ rHist.err = whole.err
  /\ receiver.subpacketType = rHist.kind
  /\ receiver.buf = rHist.data
  /\ IF rHist.damaged
     THEN rHist.err \in CrcErrors /\ ~hasFileData(receiver)
     ELSE rHist.err = "none" /\ hasFileData(receiver)

\* C31: a subpacket fed in chunks cut at any byte, also between a ZDLE and
\* the byte it escapes in the payload, between the ZDLE and the
\* terminator and between a ZDLE and an escaped CRC byte, gives the
\* payload, the terminator and the CRC verdict it gives in one chunk; the
\* escape flag of the payload is never set in the CRC phase nor that of
\* the CRC in the payload phase.
C31_SplitSubpacket ==
  /\ wire = <<>> => C31Same(R_feedIncoming(rHist.start, rHist.stream))
  /\ wire # <<>> =>
       /\ rHist.err = "none"
       /\ IsPrefix(receiver.buf, rHist.data)
       /\ Len(rHist.stream) - Len(wire) < TerminatorAt(rHist) =>
            (receiver.subpacketState = "Reading" /\ ~receiver.crcEscapePending
             /\ receiver.crcBuf = <<>>)
       /\ Len(rHist.stream) - Len(wire) >= TerminatorAt(rHist) =>
            (receiver.subpacketState = "Crc" /\ ~receiver.subpacketEscapePending
             /\ receiver.buf = rHist.data)

\* A subpacket read to its end with chunks that ended after a ZDLE of the
\* payload, after the ZDLE of the terminator and after a ZDLE of the CRC.
C31_Witness ==
  /\ wire = <<>>
  /\ ~rHist.damaged
  /\ hasFileData(receiver)
  /\ TerminatorAt(rHist) - 1 \in rHist.cuts
  /\ \E p \in rHist.cuts : p < TerminatorAt(rHist) - 1 /\ rHist.stream[p] = ZDLE
  /\ \E p \in rHist.cuts : p > TerminatorAt(rHist) /\ rHist.stream[p] = ZDLE

(***************************************************************************)
(* A session.  A Sender (initiator) and a Receiver are joined by two       *)
(* channels that keep every byte in order: wire.toR holds the bytes the    *)
(* Sender's caller wrote and the Receiver has not consumed, wire.toS the   *)
(* other way.  Each caller works as the pump of the integration tests: it  *)
(* writes the drained bytes to the channel, polls the events, answers the  *)
(* file request or takes the file data, and presents the unread bytes of   *)
(* its channel once nothing is left to drain.  sHist records the declared  *)
(* size (NoFile for a session without startFile), the calls made, the      *)
(* events polled and the bytes fed with feedFile; rHist the events polled  *)
(* and the bytes taken with drainFile.                                     *)
(***************************************************************************)
NoFile == 0 - 1

LinkInit ==
  /\ sender = SenderNew(TRUE)
  /\ receiver = ReceiverNew
  /\ wire = [toR |-> <<>>, toS |-> <<>>]
  /\ sHist \in {[size |-> size, started |-> FALSE, finished |-> FALSE,
                 events |-> <<>>, fed |-> <<>>, err |-> "none"] :
                  size \in FileSizes \cup {NoFile}}
  /\ rHist = [events |-> <<>>, data |-> <<>>, err |-> "none"]

LinkStartFileDo(res) ==
  /\ sender' = res.m
  /\ sHist' = [sHist EXCEPT !.started = TRUE, !.err = res.err]
  /\ UNCHANGED <<receiver, rHist, wire>>

\* sender.startFile(name, size), once.
LinkStartFile ==
  /\ sHist.size # NoFile
  /\ ~sHist.started
  /\ sHist.err = "none"
  /\ LinkStartFileDo(startFile(sender, <<97>>, sHist.size))

LinkFinishSessionDo(res) ==
  /\ sender' = res.m
  /\ sHist' = [sHist EXCEPT !.finished = TRUE, !.err = res.err]
  /\ UNCHANGED <<receiver, rHist, wire>>

\* sender.finishSession(), once, at any time after startFile if a file is
\* sent.
LinkFinishSession ==
  /\ sHist.size = NoFile \/ sHist.started
  /\ ~sHist.finished
  /\ sHist.err = "none"
  /\ ~hasOutgoing(sender)
  /\ LinkFinishSessionDo(finishSession(sender))

\* pumpSender: stream.write(sender.drainOutgoing())
LinkSenderDrain ==
  /\ hasOutgoing(sender)
  /\ sender' = S_drainOutgoing(sender).m
  /\ wire' = [wire EXCEPT !.toR = @ \o S_drainOutgoing(sender).data]
  /\ UNCHANGED <<sHist, receiver, rHist>>

\* pumpSender: sender.pollEvent()
LinkSenderPoll ==
  /\ sender.pendingEvent # "null"
  /\ sender' = S_pollEvent(sender).m
  /\ sHist' = [sHist EXCEPT !.events = Append(@, sender.pendingEvent)]
  /\ UNCHANGED <<receiver, rHist, wire>>

LinkFeedFileDo(data, res) ==
  /\ sender' = res.m
  /\ sHist' = IF res.err = "none" THEN [sHist EXCEPT !.fed = @ \o data]
              ELSE [sHist EXCEPT !.err = res.err]
  /\ UNCHANGED <<receiver, rHist, wire>>

\* pumpSender: the request of pollFile is answered with the bytes of the
\* file at its offset, all that were asked for or one only.
LinkFeedFile ==
  /\ sender.pendingRequest # NoRequest
  /\ ~hasOutgoing(sender)
  /\ sHist.err = "none"
  /\ \E n \in {1, Min(sender.pendingRequest.len,
                      sHist.size - sender.pendingRequest.offset)} :
       /\ n >= 1
       /\ LinkFeedFileDo(FileBytes(sender.pendingRequest.offset, n),
                         feedFile(sender, FileBytes(sender.pendingRequest.offset, n)))

LinkSenderFeedDo(res) ==
  /\ sender' = res.m
  /\ wire' = [wire EXCEPT !.toS = Drop(@, res.consumed)]
  /\ sHist' = [sHist EXCEPT !.err = res.err]
  /\ UNCHANGED <<receiver, rHist>>

\* sender.feedIncoming of the unread bytes of the channel; the bytes
\* beyond the returned count stay.
LinkSenderFeed ==
  /\ wire.toS # <<>>
  /\ ~hasOutgoing(sender)
  /\ sender.pendingEvent = "null"
  /\ sHist.err = "none"
  /\ LinkSenderFeedDo(S_feedIncoming(sender, wire.toS))

\* pumpReceiver: stream.write(receiver.drainOutgoing())
LinkReceiverDrain ==
  /\ hasOutgoing(receiver)
  /\ receiver' = R_drainOutgoing(receiver).m
  /\ wire' = [wire EXCEPT !.toS = @ \o R_drainOutgoing(receiver).data]
  /\ UNCHANGED <<sender, sHist, rHist>>

\* pumpReceiver: receiver.pollEvent()
LinkReceiverPoll ==
  /\ receiver.pendingEventLen > 0
  /\ receiver' = R_pollEvent(receiver).m
  /\ rHist' = [rHist EXCEPT !.events = Append(@, R_pollEvent(receiver).event)]
  /\ UNCHANGED <<sender, sHist, wire>>

LinkDrainFileDo(res) ==
  /\ receiver' = res.m
  /\ rHist' = [rHist EXCEPT !.data = @ \o res.data, !.err = res.err]
  /\ UNCHANGED <<sender, sHist, wire>>

\* pumpReceiver: receiver.drainFile()
LinkDrainFile ==
  /\ hasFileData(receiver)
  /\ ~hasOutgoing(receiver)
  /\ rHist.err = "none"
  /\ LinkDrainFileDo(drainFile(receiver))

LinkReceiverFeedDo(res) ==
  /\ receiver' = res.m
  /\ wire' = [wire EXCEPT !.toR = Drop(@, res.consumed)]
  /\ rHist' = [rHist EXCEPT !.err = res.err]
  /\ UNCHANGED <<sender, sHist>>

\* receiver.feedIncoming of the unread bytes of the channel; the bytes
\* beyond the returned count stay.
LinkReceiverFeed ==
  /\ wire.toR # <<>>
  /\ ~hasOutgoing(receiver)
  /\ rHist.err = "none"
  /\ LinkReceiverFeedDo(R_feedIncoming(receiver, wire.toR))

LinkNext ==
  \/ LinkStartFile
  \/ LinkFinishSession
  \/ LinkSenderDrain
  \/ LinkSenderPoll
  \/ LinkFeedFile
  \/ LinkSenderFeed
  \/ LinkReceiverDrain
  \/ LinkReceiverPoll
  \/ LinkDrainFile
  \/ LinkReceiverFeed

SpecLink == LinkInit /\ [][LinkNext]_vars

\* No caller operation would change anything: nothing is left to drain,
\* to poll, to answer or to call, and feedIncoming of the unread bytes, if
\* any, consumes nothing and leaves the machine as it is.  This states
\* ~ENABLED <<LinkNext>>_vars by the guards of the actions.
LinkFeedIdle(m, res) == res.consumed = 0 /\ res.m = m /\ res.err = "none"

LinkQuiet ==
  /\ ~(sHist.size # NoFile /\ ~sHist.started /\ sHist.err = "none")
  /\ ~((sHist.size = NoFile \/ sHist.started) /\ ~sHist.finished
       /\ sHist.err = "none" /\ ~hasOutgoing(sender))
  /\ ~hasOutgoing(sender)
  /\ ~hasOutgoing(receiver)
  /\ sender.pendingEvent = "null"
  /\ receiver.pendingEventLen = 0
  /\ ~(sender.pendingRequest # NoRequest /\ sHist.err = "none")
  /\ ~(hasFileData(receiver) /\ rHist.err = "none")
  /\ (wire.toS # <<>> /\ sHist.err = "none")
       => LinkFeedIdle(sender, S_feedIncoming(sender, wire.toS))
  /\ (wire.toR # <<>> /\ rHist.err = "none")
       => LinkFeedIdle(receiver, R_feedIncoming(receiver, wire.toR))

\* Each caller goes on pumping.  Draining and polling are weakly fair,
\* and so are the operations of the callers taken together: a run stops
\* only where no operation would change anything.
LinkFairness ==
  /\ WF_vars(LinkSenderDrain)
  /\ WF_vars(LinkSenderPoll)
  /\ WF_vars(LinkReceiverDrain)
  /\ WF_vars(LinkReceiverPoll)
  /\ ([]<>LinkQuiet \/ []<><<LinkNext>>_vars)

SpecLinkFair == SpecLink /\ LinkFairness

LinkNoError == sHist.err = "none" /\ rHist.err = "none"

\* Both sides have ended and their callers hold the events of one file.
C32Ended ==
  /\ sender.state = "Done"
  /\ receiver.state = "SessionEnd"
  /\ sHist.events = <<"FileComplete", "SessionComplete">>
  /\ rHist.events = <<"FileStart", "FileComplete", "SessionComplete">>

\* C32: with channels that lose nothing and callers that go on pumping and
\* call startFile(name, size) once and finishSession once, the Sender
\* comes to Done and the Receiver to SessionEnd with FileComplete and
\* SessionComplete polled on both sides, for each declared size, 0 too.
C32_FileLiveness == (sHist.size # NoFile) ~> C32Ended

\* Both sides have ended and their callers hold SessionComplete only.
C33Ended ==
  /\ sender.state = "Done"
  /\ receiver.state = "SessionEnd"
  /\ sHist.events = <<"SessionComplete">>
  /\ rHist.events = <<"SessionComplete">>

\* C33: when finishSession is called and startFile never is, the Sender
\* comes to Done and the Receiver to SessionEnd, each with SessionComplete
\* polled by its caller.
C33_EmptySessionLiveness == (sHist.size = NoFile) ~> C33Ended

\* The events the Receiver has produced: those polled, then those queued.
LinkReceiverEvents == rHist.events \o QueueSeq(receiver)

LinkEmitted(e) == \E i \in 1..Len(LinkReceiverEvents) : LinkReceiverEvents[i] = e

\* C34: in a session over channels that lose nothing, the bytes taken
\* with drainFile are, in order and with no gap or repeat, the bytes fed
\* with feedFile, which are the bytes of the file from offset 0; none is
\* handed out before FileStart or after FileComplete, and when
\* FileComplete is emitted all the bytes fed have been handed out and the
\* Receiver's count is the declared size.
C34_DataIntegrity ==
  /\ IsPrefix(rHist.data, sHist.fed)
  /\ IsPrefix(sHist.fed, FileBytes(0, Max(sHist.size, 0)))
  /\ (rHist.data # <<>> \/ hasFileData(receiver)) => LinkEmitted("FileStart")
  /\ hasFileData(receiver) =>
       (~LinkEmitted("FileComplete")
        /\ IsPrefix(rHist.data \o Drop(receiver.buf, receiver.bufWriteOffset), sHist.fed))
  /\ LinkEmitted("FileComplete") =>
       /\ rHist.data = sHist.fed
       /\ Len(rHist.data) = sHist.size
       /\ receiver.count = sHist.size

\* A file of MaxFileSize bytes is complete at the Receiver's caller, which
\* has taken all its bytes.
C34_Witness ==
  /\ sHist.size = MaxFileSize
  /\ Len(rHist.data) = MaxFileSize
  /\ rHist.events = <<"FileStart", "FileComplete">>
  /\ wire.toR = <<>>

(***************************************************************************)
(* The Sender at the shipped subpacket size.  SUBPACKET_MAX_SIZE above is  *)
(* a small stand-in for the 1024 of constants.ts, while the outgoing       *)
(* Buffer keeps its 2048 bytes; here the Sender has maxSubpacketSize as    *)
(* shipped, a file of two full subpackets and a ZRPOS answered, and its    *)
(* caller feeds one chunk of legal length and drains.  sHist records the   *)
(* chunk, whether feedFile was called and its error; wire the bytes        *)
(* drained.                                                                *)
(***************************************************************************)
ShippedSubpacketSize == 1024

ShippedFileSize == 2 * ShippedSubpacketSize

\* A chunk of n bytes, the first k of them ZDLE and the others 'A'.
ShippedChunk(n, k) == [i \in 1..n |-> IF i <= k THEN ZDLE ELSE 65]

ShippedChunks ==
  {ShippedChunk(n, k) : n \in {1, 2, ShippedSubpacketSize - 1, ShippedSubpacketSize},
                        k \in {0, 1, 1000, 1011, 1012, ShippedSubpacketSize}}

\* startFile, then the ZRINIT read and the ZFILE frame drained.
ShippedFileOffered(zrinit) ==
  S_drainOutgoing(S_feedIncoming(startFile(SenderNew(FALSE), <<97>>, ShippedFileSize).m,
                                 encode(zrinit)).m).m

\* The Sender asked by ZRPOS for the bytes at offset.
ShippedSender(zrinit, offset) ==
  S_feedIncoming([ShippedFileOffered(zrinit) EXCEPT
                    !.maxSubpacketSize = ShippedSubpacketSize],
                 encode(withCount(ZRPOS_HEADER, offset))).m

ShippedInit ==
  /\ sender \in {ShippedSender(zrinit, offset) :
                   zrinit \in {createZrinit(SUBPACKET_MAX_SIZE, CANFDX + CANFC32),
                               Header(ZHEX, ZRINIT, <<0, 0, CANOVIO, 0>>)},
                   offset \in {0, ShippedSubpacketSize}}
  /\ sHist \in {[chunk |-> c, called |-> FALSE, err |-> "none"] : c \in ShippedChunks}
  /\ wire = <<>>
  /\ receiver = Absent
  /\ rHist = RHistInit

ShippedFeedFileDo(res) ==
  /\ sender' = res.m
  /\ sHist' = [sHist EXCEPT !.called = TRUE, !.err = res.err]
  /\ UNCHANGED <<receiver, rHist, wire>>

\* sender.feedFile(chunk)
ShippedFeedFile ==
  /\ ~sHist.called
  /\ ShippedFeedFileDo(feedFile(sender, sHist.chunk))

\* stream.write(sender.drainOutgoing())
ShippedDrain ==
  /\ hasOutgoing(sender)
  /\ sender' = S_drainOutgoing(sender).m
  /\ wire' = wire \o S_drainOutgoing(sender).data
  /\ UNCHANGED <<sHist, receiver, rHist>>

ShippedNext == ShippedFeedFile \/ ShippedDrain

SpecShipped == ShippedInit /\ [][ShippedNext]_vars

\* C35: feedFile of a chunk of legal length succeeds whatever its bytes:
\* the ZDATA frame fits the outgoing buffer, OutOfMemory is never raised
\* and no part of a frame is left in the outgoing buffer or handed to the
\* caller by drainOutgoing.
C35_FeedFileFits ==
  /\ sHist.called => sHist.err = "none"
  /\ sHist.err # "none" => (~hasOutgoing(sender) /\ wire = <<>>)

\* C36: no Sender event is lost, however late the caller polls: an event
\* waiting for pollEvent leaves only by being returned, so an unpolled
\* FileComplete is never replaced by SessionComplete.
C36_NoSenderEventLost ==
  [][(sender # Absent /\ sender.pendingEvent # "null"
      /\ sender'.pendingEvent # sender.pendingEvent)
     => sender'.pendingEvent = "null"]_vars

\* C37, as far as the events not yet polled and the file buffer show it:
\* between two FileComplete there is a FileStart, no file data waits for
\* drainFile when the last event produced is FileComplete, and nothing
\* follows SessionComplete.
C37_ReceiverEventsNested ==
  receiver # Absent =>
    /\ \A i, j \in 1..receiver.pendingEventLen :
         (i < j /\ QueueSeq(receiver)[i] = "FileComplete"
                /\ QueueSeq(receiver)[j] = "FileComplete")
           => \E k \in (i + 1)..(j - 1) : QueueSeq(receiver)[k] = "FileStart"
    /\ (receiver.pendingEventLen > 0
        /\ QueueSeq(receiver)[receiver.pendingEventLen] = "FileComplete")
         => ~hasFileData(receiver)
    /\ \A i \in 1..receiver.pendingEventLen :
         QueueSeq(receiver)[i] = "SessionComplete" => i = receiver.pendingEventLen

\* A step that brings the Sender to Done.
C38EntersDone == sender.state # "Done" /\ sender'.state = "Done"

C38Step ==
  sender # Absent =>
    /\ C38EntersDone =>
         /\ sender.state = "WaitFinish"
         /\ sender.finishRequested
         /\ sender'.pendingEvent = "SessionComplete"
    /\ (sender'.pendingEvent = "SessionComplete"
        /\ sender.pendingEvent # "SessionComplete") => C38EntersDone
    /\ sender.state = "Done" => sender'.state = "Done"

\* C38: the Sender comes to Done only from WaitFinish and only after
\* finishSession was called; SessionComplete is published on the step into
\* Done and on no other, and Done is never left, so it is published at
\* most once.
C38_DoneOnlyAfterFinish ==
  /\ [](sender # Absent /\ sender.state \in {"WaitFinish", "Done"}
          => sender.finishRequested)
  /\ [][C38Step]_vars

\* The Sender in Done, its SessionComplete polled.
C38_Witness ==
  /\ sender # Absent
  /\ sender.state = "Done"
  /\ sender.finishRequested
  /\ sender.pendingEvent = "null"

\* The call gave res: no error, the frame queued and the state entered.
C39Queued(res, state) ==
  /\ res.err = "none"
  /\ res.m.state = state
  /\ hasOutgoing(res.m)
  /\ res.m.outgoingOffset = 0

C40Offers ==
  {Header(ZHEX, ZRINIT, <<b % 256, b \div 256, c2, c3>>) :
     b \in {0, 1, SUBPACKET_MAX_SIZE - 1, SUBPACKET_MAX_SIZE, SUBPACKET_MAX_SIZE + 1,
            2 * SUBPACKET_MAX_SIZE, 2 * SUBPACKET_MAX_SIZE + 1, 300},
     c2 \in {0, CANOVIO}, c3 \in {0, CANFDX + CANOVIO + CANFC32}}

\* The Sender s holds limits of at least 1 whose product is within the
\* advertised buffer size, if that is not 0.
C40Caps(s, rxBufSize) ==
  /\ s.maxSubpacketSize >= 1
  /\ s.maxSubpacketsPerAck >= 1
  /\ rxBufSize # 0 => s.maxSubpacketSize * s.maxSubpacketsPerAck <= rxBufSize

C40Limits ==
  sender # Absent =>
    /\ sender.maxSubpacketSize >= 1
    /\ sender.maxSubpacketsPerAck >= 1
    /\ ~S_mustStop(sender) =>
         \A h \in C40Offers :
           C40Caps(S_feedIncoming(sender, encode(h)).m, HeaderCount(h) % 65536)

\* A step that emits file bytes keeps the bytes of the group within
\* maxSubpacketSize * maxSubpacketsPerAck and leaves the limits alone.
C40Step ==
  (sender # Absent /\ sHist'.fedSince > sHist.fedSince) =>
    /\ sHist'.fedSince <= sender.maxSubpacketSize * sender.maxSubpacketsPerAck
    /\ sender'.maxSubpacketSize = sender.maxSubpacketSize
    /\ sender'.maxSubpacketsPerAck = sender.maxSubpacketsPerAck

\* C40: the file bytes emitted in a subpacket group never exceed
\* maxSubpacketSize * maxSubpacketsPerAck; the limits a ZRINIT with a
\* buffer size B other than 0 sets have a product of at most B; both limits
\* are at least 1 in every state.
C40_WindowBound == [] C40Limits /\ [][C40Step]_vars

\* A group of two full subpackets emitted under a window of 2.
C40_Witness ==
  /\ sender # Absent
  /\ sender.maxSubpacketsPerAck = 2
  /\ Len(sHist.group) = 2
  /\ sHist.fedSince = 2 * sender.maxSubpacketSize
  /\ sender.state = "WaitFileAck"

====
